---- MODULE Spec2Model ----
(***************************************************************************)
(* Model of the tool-calling orchestration engine of ollama-cli-agent:     *)
(* ConversationManager and ChatAgent (src/src/core/agent.py), ToolRegistry *)
(* (src/src/tools/__init__.py), the LLM error types                        *)
(* (src/src/core/exceptions.py) and the configuration values they read     *)
(* (src/src/core/config.py).                                               *)
(*                                                                         *)
(* Strings built with f-strings are sequences of string tokens, so that    *)
(* "the text contains X" is membership of a token.  A message is a record  *)
(* whose optional keys (tool_calls, tool_name) are present only when the   *)
(* Python dict has them.  A Python dict is a sequence of [key, value]      *)
(* pairs in insertion order.                                               *)
(***************************************************************************)
EXTENDS Integers, Sequences, FiniteSets, TLC

VARIABLES
    max_history,        \* Config.max_history
    timeout,            \* Config.timeout
    history,            \* ConversationManager.history
    clock,              \* number of messages stamped so far (datetime.now())
    tools,              \* ToolRegistry._tools
    tool_info,          \* ToolRegistry._tool_info
    pc,                 \* position of the agent inside process_message
    context_messages,   \* the live LLM context list of the current turn
    tool_calls,         \* the batch being dispatched by _execute_tools
    idx,                \* loop position of _execute_tools (1-based)
    results,            \* the results list of _execute_tools
    llm_log,            \* history variable: the LLM calls of the current turn
    llm_responses,      \* history variable: what each of those calls did
    turn_input,         \* history variable: the argument of process_message
    exec_log,           \* history variable: the dispatch attempts of the turn
    appended,           \* history variable: the add_message calls of the turn
    returned,           \* history variable: outcome of the last finished turn
    installed,          \* history variable: what load_history installed
    tool_name,          \* the local variable tool_name of _execute_tools
    depth,              \* _handle_tool_calls frames on the interpreter stack
    recursion_limit,    \* nested _handle_tool_calls calls the stack has room for
    last_reg,           \* history variable: last register_tool call per name
    reg_count,          \* history variable: number of register_tool calls
    last_call,          \* history variable: outcome of the last registry call
    registry,           \* the module global _registry of src/tools/__init__.py
    constructed,        \* number of ToolRegistry() constructions so far
    own_registry,       \* a ToolRegistry instance a caller constructed itself
    loaded_plugins      \* ToolRegistry._loaded_plugins of the shared registry

vars == <<max_history, timeout, history, clock, tools, tool_info, pc,
          context_messages, tool_calls, idx, results, llm_log,
          llm_responses, turn_input, exec_log, appended, returned,
          installed, tool_name, depth, recursion_limit, last_reg, reg_count,
          last_call, registry, constructed, own_registry, loaded_plugins>>

config_vars == <<max_history, timeout, recursion_limit>>
registry_vars == <<tools, tool_info>>
turn_vars == <<pc, context_messages, tool_calls, idx, results, tool_name,
               depth>>
turn_logs == <<llm_log, llm_responses, turn_input, exec_log, appended,
               returned>>
reg_logs == <<last_reg, reg_count, last_call>>
module_vars == <<registry, constructed, own_registry, loaded_plugins>>

----------------------------------------------------------------------------
(* Bounds of the model *)

MaxMaxHistory == 2     \* max_history ranges over 0..MaxMaxHistory
MaxSystem == 4         \* system messages in a history installed at start
MaxClock == 6          \* messages appended in one behaviour
MaxBatch == 2          \* tool calls in one LLM response
MaxAppends == 4        \* add_message calls made on a bare ConversationManager
MaxRegs == 3           \* register_tool calls made on a bare ToolRegistry
MaxNesting == 1        \* largest recursion limit of a start under a small limit

----------------------------------------------------------------------------
(* Generic helpers *)

Max(a, b) == IF a > b THEN a ELSE b
Min(a, b) == IF a < b THEN a ELSE b
Range(s) == {s[i] : i \in 1..Len(s)}
Last(s) == s[Len(s)]

\* Python s[a:] for an integer a (a negative a counts from the end; -0 is 0).
SliceFrom(s, a) ==
    LET n == Len(s)
        start == IF a < 0 THEN Max(n + a, 0) ELSE Min(a, n)
    IN  SubSeq(s, start + 1, n)

\* Python dicts: a sequence of [key, value] pairs in insertion order.
DictHas(d, k) == \E i \in 1..Len(d) : d[i].key = k
DictGet(d, k) == d[CHOOSE i \in 1..Len(d) : d[i].key = k].value
DictKeys(d) == [i \in 1..Len(d) |-> d[i].key]
DictValues(d) == [i \in 1..Len(d) |-> d[i].value]
\* Mutant: a key that is set again moves to the end.
DictSet_move_to_end(d, k, v) ==
    Append(SelectSeq(d, LAMBDA e : e.key # k), [key |-> k, value |-> v])
\* d[k] = v: an existing key keeps its position, a new key goes last.
DictSet(d, k, v) ==
    IF DictHas(d, k)
    THEN [i \in 1..Len(d) |->
            IF d[i].key = k THEN [key |-> k, value |-> v] ELSE d[i]]
    ELSE Append(d, [key |-> k, value |-> v])

----------------------------------------------------------------------------
(* ConversationManager *)

Roles == {"system", "user", "assistant", "tool", "error"}
NoKw == <<>>                       \* add_message called without **kwargs

IsSystem(msg) == msg.role = "system"
IsNonSystem(msg) == msg.role # "system"

\* The dict add_message builds: role, content, timestamp, then the kwargs.
\* kwargs holds the keyword arguments whose value is not None.
NewMessage(role, content, kwargs, ts) ==
    [role |-> role, content |-> content, timestamp |-> ts] @@ kwargs

\* Mutant: the trim keeps the recent messages only.
add_message_recent_only(h, msg, M) ==
    LET h1 == Append(h, msg)
    IN  IF Len(h1) > M * 2 THEN SliceFrom(h1, 0 - M) ELSE h1
\* ConversationManager.add_message: the history after appending msg.
add_message(h, msg, M) ==
    LET h1 == Append(h, msg)
    IN  IF Len(h1) > M * 2
        THEN SelectSeq(h1, IsSystem) \o SliceFrom(h1, 0 - M)
        ELSE h1

ContextRoles == {"user", "assistant", "tool"}
InContext(msg) == msg.role \in ContextRoles
ContextMsg(msg) ==
    [k \in DOMAIN msg \cap {"role", "content", "tool_calls", "tool_name"}
        |-> msg[k]]

\* ConversationManager.get_context_messages
get_context_messages(h, system_prompt, M) ==
    LET recent == SelectSeq(SliceFrom(h, 0 - M), InContext)
    IN  <<[role |-> "system", content |-> system_prompt]>>
            \o [i \in 1..Len(recent) |-> ContextMsg(recent[i])]

----------------------------------------------------------------------------
(* Python values, exceptions and callables *)

IntVal(n) == [type |-> "int", v |-> n]
StrVal(t) == [type |-> "str", v |-> t]
\* str(value)
Str(val) == IF val.type = "int" THEN ToString(val.v) ELSE val.v

Returns(v) == [kind |-> "return", value |-> v]
Raises(type, msg) == [kind |-> "raise", exc |-> [type |-> type, msg |-> msg]]

LLMErrorTypes ==
    {"LLMError", "LLMConnectionError", "LLMTimeoutError", "LLMResponseError"}
ToolErrorTypes ==
    {"ToolError", "ToolNotFoundError", "ToolExecutionError",
     "ToolTimeoutError", "ToolValidationError"}

\* Mutant: the message reports the default timeout, not the configured one.
LLMTimeoutError_default(t) ==
    [type |-> "LLMTimeoutError",
     msg |-> <<"LLM request timed out after ", ToString(30), " seconds">>]
\* LLMTimeoutError(timeout)
LLMTimeoutError(t) ==
    [type |-> "LLMTimeoutError",
     msg |-> <<"LLM request timed out after ", ToString(t), " seconds">>]
\* LLMConnectionError(url, original_error)
LLMConnectionError(url, original) ==
    [type |-> "LLMConnectionError",
     msg |-> <<"Cannot connect to LLM at ", url, ": ">> \o original]
\* LLMResponseError(message)
LLMResponseError(message) == [type |-> "LLMResponseError", msg |-> message]
\* ToolNotFoundError(tool_name)
ToolNotFoundError(name) ==
    [type |-> "ToolNotFoundError", msg |-> <<"Tool '", name, "' not found">>]
\* ToolValidationError(tool_name, validation_message)
ToolValidationError(name, message) ==
    [type |-> "ToolValidationError",
     msg |-> <<"Tool '", name, "' validation failed: ">> \o message]
\* ToolError(message)
ToolError(message) == [type |-> "ToolError", msg |-> message]

\* A parameter of a callable's signature.
Param(name, annotation, has_default) ==
    [name |-> name, kind |-> "POSITIONAL_OR_KEYWORD",
     annotation |-> annotation, has_default |-> has_default]
VarParam(name, kind) ==
    [name |-> name, kind |-> kind, annotation |-> "empty",
     has_default |-> FALSE]
\* A line of a docstring, with the facts the schema heuristic reads from it:
\* the parameter names that occur in it and the text after its first colon.
DocLine(text, mentions, after) ==
    [text |-> text, mentions |-> mentions, after |-> after]

\* The callables of the model.  body is what the function does once its
\* arguments are bound: return result, raise TypeError or raise Exception.
Handlers == {
    [name |-> "calc", doc |-> <<>>,
     params |-> <<Param("x", "int", FALSE)>>,
     body |-> "return", result |-> IntVal(42)],
    [name |-> "calc_v2",
     doc |-> <<DocLine("Compute.", {}, ""),
               DocLine("x: the number", {"x"}, "the number")>>,
     params |-> <<Param("x", "empty", FALSE), Param("y", "float", TRUE)>>,
     body |-> "return", result |-> StrVal("43")],
    [name |-> "boom", doc |-> <<DocLine("Fail.", {}, "")>>,
     params |-> <<VarParam("kwargs", "VAR_KEYWORD")>>,
     body |-> "raise", result |-> StrVal("kaput")],
    [name |-> "mix", doc |-> <<>>,
     params |-> <<Param("a", "str", FALSE), Param("b", "int", TRUE)>>,
     body |-> "type_error", result |-> StrVal("unsupported operand")]}

\* A callable with every annotation the schema inference knows, a docstring
\* line for one parameter and both variadic forms.
TypedHandler ==
    [name |-> "typed",
     doc |-> <<DocLine("Typed.", {}, ""),
               DocLine("items: the items", {"items"}, "the items")>>,
     params |-> <<Param("items", "list", FALSE), Param("ratio", "float", FALSE),
                  Param("flag", "bool", TRUE), Param("opts", "dict", TRUE),
                  VarParam("args", "VAR_POSITIONAL"),
                  VarParam("kwargs", "VAR_KEYWORD")>>,
     body |-> "return", result |-> StrVal("typed")]

HandlerNamed(n) == CHOOSE f \in Handlers : f.name = n

NamedParams(f) ==
    {f.params[i].name : i \in {j \in 1..Len(f.params) :
        f.params[j].kind = "POSITIONAL_OR_KEYWORD"}}
RequiredParams(f) ==
    {f.params[i].name : i \in {j \in 1..Len(f.params) :
        /\ f.params[j].kind = "POSITIONAL_OR_KEYWORD"
        /\ ~f.params[j].has_default}}
AcceptsAnyKeyword(f) ==
    \E i \in 1..Len(f.params) : f.params[i].kind = "VAR_KEYWORD"

\* f(**kwargs): Python binds the keywords to the signature (TypeError on a
\* missing or unexpected argument), then runs the body.
Invoke(f, kwargs) ==
    IF \E p \in RequiredParams(f) : p \notin DOMAIN kwargs
        THEN Raises("TypeError", <<f.name, "() missing required argument">>)
    ELSE IF ~AcceptsAnyKeyword(f)
            /\ \E k \in DOMAIN kwargs : k \notin NamedParams(f)
        THEN Raises("TypeError",
                    <<f.name, "() got an unexpected keyword argument">>)
    ELSE IF f.body = "return" THEN Returns(f.result)
    ELSE IF f.body = "type_error" THEN Raises("TypeError", <<Str(f.result)>>)
    ELSE Raises("Exception", <<Str(f.result)>>)

----------------------------------------------------------------------------
(* ToolRegistry *)

ToolNames ==
    {"calc", "boom", "save_note", "generate_and_save",
     "write_file", "store_item", "search_web", "find_file",
     "query_db", "search_and_save", "Save_Draft", "read_file",
     "send_email", "this_and_that", "compute_sum", "hash_password",
     "decorated_tool"}

\* The characters of a tool name.
Spell(name) ==
    CASE name = "calc" ->
            <<"c", "a", "l", "c">>
      [] name = "boom" ->
            <<"b", "o", "o", "m">>
      [] name = "save_note" ->
            <<"s", "a", "v", "e", "_", "n", "o", "t", "e">>
      [] name = "generate_and_save" ->
            <<"g", "e", "n", "e", "r", "a", "t", "e", "_", "a", "n", "d", "_", "s", "a", "v", "e">>
      [] name = "write_file" ->
            <<"w", "r", "i", "t", "e", "_", "f", "i", "l", "e">>
      [] name = "store_item" ->
            <<"s", "t", "o", "r", "e", "_", "i", "t", "e", "m">>
      [] name = "search_web" ->
            <<"s", "e", "a", "r", "c", "h", "_", "w", "e", "b">>
      [] name = "find_file" ->
            <<"f", "i", "n", "d", "_", "f", "i", "l", "e">>
      [] name = "query_db" ->
            <<"q", "u", "e", "r", "y", "_", "d", "b">>
      [] name = "search_and_save" ->
            <<"s", "e", "a", "r", "c", "h", "_", "a", "n", "d", "_", "s", "a", "v", "e">>
      [] name = "Save_Draft" ->
            <<"S", "a", "v", "e", "_", "D", "r", "a", "f", "t">>
      [] name = "read_file" ->
            <<"r", "e", "a", "d", "_", "f", "i", "l", "e">>
      [] name = "send_email" ->
            <<"s", "e", "n", "d", "_", "e", "m", "a", "i", "l">>
      [] name = "this_and_that" ->
            <<"t", "h", "i", "s", "_", "a", "n", "d", "_", "t", "h", "a", "t">>
      [] name = "compute_sum" ->
            <<"c", "o", "m", "p", "u", "t", "e", "_", "s", "u", "m">>
      [] name = "hash_password" ->
            <<"h", "a", "s", "h", "_", "p", "a", "s", "s", "w", "o", "r", "d">>
      [] name = "decorated_tool" ->
            <<"d", "e", "c", "o", "r", "a", "t", "e", "d", "_", "t", "o", "o", "l">>

LowerChar(c) ==
    CASE c = "A" -> "a" [] c = "B" -> "b" [] c = "C" -> "c" [] c = "D" -> "d"
      [] c = "E" -> "e" [] c = "F" -> "f" [] c = "G" -> "g" [] c = "H" -> "h"
      [] c = "I" -> "i" [] c = "J" -> "j" [] c = "K" -> "k" [] c = "L" -> "l"
      [] c = "M" -> "m" [] c = "N" -> "n" [] c = "O" -> "o" [] c = "P" -> "p"
      [] c = "Q" -> "q" [] c = "R" -> "r" [] c = "S" -> "s" [] c = "T" -> "t"
      [] c = "U" -> "u" [] c = "V" -> "v" [] c = "W" -> "w" [] c = "X" -> "x"
      [] c = "Y" -> "y" [] c = "Z" -> "z"
      [] OTHER -> c
\* str.lower()
Lower(s) == [i \in 1..Len(s) |-> LowerChar(s[i])]
\* w in s, for two character sequences
Contains(s, w) ==
    \E i \in 0..(Len(s) - Len(w)) : SubSeq(s, i + 1, i + Len(w)) = w
ContainsAny(s, words) == \E w \in words : Contains(s, w)

GenerationWords == {<<"g", "e", "n", "e", "r", "a", "t", "e">>}
StorageWords ==
    {<<"s", "a", "v", "e">>,
     <<"w", "r", "i", "t", "e">>,
     <<"s", "t", "o", "r", "e">>}
SearchWords ==
    {<<"s", "e", "a", "r", "c", "h">>,
     <<"f", "i", "n", "d">>,
     <<"q", "u", "e", "r", "y">>}
RetrievalWords ==
    {<<"r", "e", "a", "d">>,
     <<"l", "i", "s", "t">>,
     <<"g", "e", "t">>,
     <<"f", "e", "t", "c", "h">>}
CommunicationWords ==
    {<<"e", "m", "a", "i", "l">>,
     <<"s", "e", "n", "d">>,
     <<"m", "e", "s", "s", "a", "g", "e">>}
CombinedWords == {<<"_", "a", "n", "d", "_">>}
CalculationWords ==
    {<<"c", "a", "l", "c", "u", "l", "a", "t", "e">>,
     <<"m", "a", "t", "h">>,
     <<"c", "o", "m", "p", "u", "t", "e">>}
SecurityWords ==
    {<<"p", "a", "s", "s", "w", "o", "r", "d">>,
     <<"e", "n", "c", "r", "y", "p", "t">>,
     <<"h", "a", "s", "h">>}

\* Mutant: the storage rule is tried before the generation rule.
auto_categorize_storage_first(name) ==
    LET name_lower == Lower(Spell(name))
    IN  IF ContainsAny(name_lower, StorageWords) THEN "storage"
        ELSE IF ContainsAny(name_lower, GenerationWords) THEN "generation"
        ELSE IF ContainsAny(name_lower, SearchWords) THEN "search"
        ELSE IF ContainsAny(name_lower, RetrievalWords) THEN "retrieval"
        ELSE IF ContainsAny(name_lower, CommunicationWords)
            THEN "communication"
        ELSE IF ContainsAny(name_lower, CombinedWords) THEN "combined"
        ELSE IF ContainsAny(name_lower, CalculationWords) THEN "calculation"
        ELSE IF ContainsAny(name_lower, SecurityWords) THEN "security"
        ELSE "utility"
\* Mutant: the _and_ rule is tried first.
auto_categorize_combined_first(name) ==
    LET name_lower == Lower(Spell(name))
    IN  IF ContainsAny(name_lower, CombinedWords) THEN "combined"
        ELSE IF ContainsAny(name_lower, GenerationWords) THEN "generation"
        ELSE IF ContainsAny(name_lower, StorageWords) THEN "storage"
        ELSE IF ContainsAny(name_lower, SearchWords) THEN "search"
        ELSE IF ContainsAny(name_lower, RetrievalWords) THEN "retrieval"
        ELSE IF ContainsAny(name_lower, CommunicationWords)
            THEN "communication"
        ELSE IF ContainsAny(name_lower, CalculationWords) THEN "calculation"
        ELSE IF ContainsAny(name_lower, SecurityWords) THEN "security"
        ELSE "utility"
\* ToolRegistry._auto_categorize
auto_categorize(name) ==
    LET name_lower == Lower(Spell(name))
    IN  IF ContainsAny(name_lower, GenerationWords) THEN "generation"
        ELSE IF ContainsAny(name_lower, StorageWords) THEN "storage"
        ELSE IF ContainsAny(name_lower, SearchWords) THEN "search"
        ELSE IF ContainsAny(name_lower, RetrievalWords) THEN "retrieval"
        ELSE IF ContainsAny(name_lower, CommunicationWords)
            THEN "communication"
        ELSE IF ContainsAny(name_lower, CombinedWords) THEN "combined"
        ELSE IF ContainsAny(name_lower, CalculationWords) THEN "calculation"
        ELSE IF ContainsAny(name_lower, SecurityWords) THEN "security"
        ELSE "utility"

\* The JSON type _auto_generate_schema gives an annotation.
SchemaType(annotation) ==
    CASE annotation = "int" -> "integer"
      [] annotation = "float" -> "number"
      [] annotation = "bool" -> "boolean"
      [] annotation = "list" -> "array"
      [] annotation = "dict" -> "object"
      [] OTHER -> "string"

\* The description the docstring heuristic finds for a parameter: the text
\* after the colon of the first line that has the name and a colon.
DocDescription(doc, param_name) ==
    LET hits == {i \in 1..Len(doc) : param_name \in doc[i].mentions}
    IN  IF hits = {} THEN <<>>
        ELSE LET first == CHOOSE i \in hits : \A j \in hits : i <= j
             IN  IF doc[first].after = "" THEN <<>>
                 ELSE [description |-> doc[first].after]

ParamSchema(f, p) == [type |-> SchemaType(p.annotation)]
                        @@ DocDescription(f.doc, p.name)

IsNamedParam(p) == p.kind \notin {"VAR_POSITIONAL", "VAR_KEYWORD"}
IsRequiredParam(p) == IsNamedParam(p) /\ ~p.has_default
ParamName(p) == p.name

\* Mutant: every named parameter is listed as required.
auto_generate_schema_all_required(f) ==
    LET named == SelectSeq(f.params, IsNamedParam)
    IN  [type |-> "object",
         properties |-> [i \in 1..Len(named) |->
             [key |-> named[i].name, value |-> ParamSchema(f, named[i])]],
         required |-> [i \in 1..Len(named) |-> ParamName(named[i])]]
\* ToolRegistry._auto_generate_schema
auto_generate_schema(f) ==
    LET named == SelectSeq(f.params, IsNamedParam)
        required == SelectSeq(f.params, IsRequiredParam)
    IN  [type |-> "object",
         properties |-> [i \in 1..Len(named) |->
             [key |-> named[i].name, value |-> ParamSchema(f, named[i])]],
         required |-> [i \in 1..Len(required) |-> ParamName(required[i])]]

\* function.__doc__ as text
DocText(f) == [i \in 1..Len(f.doc) |-> f.doc[i].text]

\* ToolInfo(name, function, description, category, schema)
ToolInfo(name, function, description, category, schema) ==
    [name |-> name, function |-> function, description |-> description,
     category |-> category, schema |-> schema]

\* ToolRegistry.register_tool: the ToolInfo it stores.  opts holds the
\* optional arguments (description, category, schema) that are not None.
RegisteredInfo(name, function, opts) ==
    ToolInfo(name, function,
        IF "description" \in DOMAIN opts THEN opts.description
        ELSE IF function.doc # <<>> THEN DocText(function)
        ELSE <<name, "()">>,
        IF "category" \in DOMAIN opts THEN opts.category
        ELSE auto_categorize(name),
        IF "schema" \in DOMAIN opts THEN opts.schema
        ELSE auto_generate_schema(function))

\* Mutant: a name that is already registered keeps its first function.
register_tools_first_wins(t, name, function) ==
    IF DictHas(t, name) THEN t ELSE DictSet(t, name, function)
\* ToolRegistry.register_tool: the two dicts after the call.
register_tools(t, name, function) == DictSet(t, name, function)
register_tool_info(ti, name, function, opts) ==
    DictSet(ti, name, RegisteredInfo(name, function, opts))

\* ToolRegistry.get_tool
get_tool(t, name) ==
    IF ~DictHas(t, name)
    THEN [kind |-> "raise", exc |-> ToolNotFoundError(name)]
    ELSE Returns(DictGet(t, name))

\* ToolRegistry.execute_tool
execute_tool(t, name, kwargs) ==
    IF ~DictHas(t, name)
    THEN [kind |-> "raise", exc |-> ToolNotFoundError(name)]
    ELSE LET out == Invoke(DictGet(t, name), kwargs)
         IN  IF out.kind = "return" THEN out
             ELSE IF out.exc.type = "TypeError"
                THEN [kind |-> "raise",
                      exc |-> ToolValidationError(name, out.exc.msg)]
             ELSE [kind |-> "raise",
                   exc |-> ToolError(<<"Tool '", name,
                                       "' execution failed: ">>
                                     \o out.exc.msg)]

\* Mutant: the recorded schema is enforced before the handler is invoked.
SchemaAdmits_enforced(ti, name, kwargs) ==
    LET schema == DictGet(ti, name).schema
    IN  /\ \A i \in 1..Len(schema.required) :
                schema.required[i] \in DOMAIN kwargs
        /\ \A k \in DOMAIN kwargs : DictHas(schema.properties, k)
\* "TODO: Add schema validation here": the recorded schema is not consulted.
SchemaAdmits(ti, name, kwargs) == TRUE

\* The call registry.execute_tool(name, **kwargs) on a registry whose dicts
\* are t and ti.  Python binds the keywords to the signature
\* execute_tool(self, name, **kwargs) first: a keyword called self or name
\* clashes with a positional parameter and the call raises TypeError before
\* the body runs.
call_execute_tool(t, ti, name, kwargs) ==
    IF DOMAIN kwargs \cap {"self", "name"} # {}
        THEN Raises("TypeError", <<"got multiple values for argument">>)
    ELSE IF DictHas(t, name) /\ ~SchemaAdmits(ti, name, kwargs)
        THEN [kind |-> "raise",
              exc |-> ToolValidationError(name, <<"schema">>)]
    ELSE execute_tool(t, name, kwargs)

\* ToolRegistry.list_tools
list_tools(t) == DictKeys(t)

\* ToolRegistry.get_tools_schema
ToolDef(info) ==
    [type |-> "function",
     function |-> [name |-> info.name, description |-> info.description,
                   parameters |-> info.schema]]
get_tools_schema(ti) == [i \in 1..Len(ti) |-> ToolDef(ti[i].value)]

\* ToolRegistry.get_tools_by_category: a dict category -> list of ToolInfo,
\* categories in order of first appearance, tools in registry order.
RECURSIVE group_by_category(_, _)
group_by_category(infos, categories) ==
    IF infos = <<>> THEN categories
    ELSE LET info == Head(infos)
             sofar == IF DictHas(categories, info.category)
                      THEN DictGet(categories, info.category) ELSE <<>>
         IN  group_by_category(Tail(infos),
                DictSet(categories, info.category, Append(sofar, info)))
get_tools_by_category(ti) == group_by_category(DictValues(ti), <<>>)

----------------------------------------------------------------------------
(* PromptBuilder *)

\* The categories in the order sorted() gives them.
CategoryOrder ==
    <<"calculation", "combined", "communication", "generation", "retrieval",
      "search", "security", "storage", "test", "utility">>
\* Mutant: the category name is shown as it is stored.
Title_raw(category) == category
\* category.replace('_', ' ').title()
Title(category) ==
    CASE category = "calculation" -> "Calculation"
      [] category = "combined" -> "Combined"
      [] category = "communication" -> "Communication"
      [] category = "generation" -> "Generation"
      [] category = "retrieval" -> "Retrieval"
      [] category = "search" -> "Search"
      [] category = "security" -> "Security"
      [] category = "storage" -> "Storage"
      [] category = "test" -> "Test"
      [] category = "utility" -> "Utility"

RECURSIVE Flatten(_)
Flatten(ss) == IF ss = <<>> THEN <<>> ELSE Head(ss) \o Flatten(Tail(ss))

ToolLine(info) == <<"  - ", info.name, ": ">> \o info.description
CategorySection(categories, category) ==
    LET infos == DictGet(categories, category)
    IN  <<"**", Title(category), " Tools:**">>
            \o Flatten([i \in 1..Len(infos) |-> ToolLine(infos[i])])
PromptHeader ==
    "You are an AI assistant with access to tools organized by category:"
PromptPolicy == "CORE PRINCIPLES: ... Choose tools based on what the user actually requests, not assumptions."
FallbackPrompt ==
    <<"You are a helpful AI assistant with access to tools. Use tools when needed and provide clear responses.">>

\* PromptBuilder.build_system_prompt; enumeration_fails is whether listing
\* the registry raised.
build_system_prompt(ti, enumeration_fails) ==
    IF enumeration_fails THEN FallbackPrompt
    ELSE LET categories == get_tools_by_category(ti)
             present(c) == DictHas(categories, c)
             sorted == SelectSeq(CategoryOrder, present)
         IN  <<PromptHeader>>
                \o Flatten([i \in 1..Len(sorted) |->
                                CategorySection(categories, sorted[i])])
                \o <<PromptPolicy>>

----------------------------------------------------------------------------
(* ChatAgent: one dispatch of _execute_tools *)

Unbound == "<unbound>"      \* a local variable that was never assigned
NoName == ""                \* None or an empty name: both are falsy
NotAMapping == [not_a_mapping |-> TRUE]   \* a JSON value that is no object
IsMapping(v) == "not_a_mapping" \notin DOMAIN v

\* tool_call.get('function', {})
FunctionData(tool_call) ==
    IF "function" \in DOMAIN tool_call THEN tool_call.function ELSE <<>>
\* function_data.get('name')
NameOf(function_data) ==
    IF "name" \in DOMAIN function_data THEN function_data.name ELSE NoName
\* Mutant: the arguments are read from a key the request does not have.
ArgumentsOf_wrong_key(function_data) ==
    IF "args" \in DOMAIN function_data THEN function_data.args ELSE <<>>
\* function_data.get('arguments', {})
ArgumentsOf(function_data) ==
    IF "arguments" \in DOMAIN function_data
    THEN function_data.arguments ELSE <<>>

\* tool_name or "unknown"
OrUnknown(name) == IF name = NoName THEN "unknown" ELSE name

\* registry.execute_tool(tool_name, **arguments) as _execute_tools calls it:
\* the ** unpacking needs a mapping whose keys do not clash with the
\* parameters self and name; ToolNotFoundError is re-raised as ToolError.
CallRegistry(t, name, arguments) ==
    IF ~IsMapping(arguments)
        THEN Raises("TypeError", <<"argument after ** must be a mapping">>)
    ELSE IF DOMAIN arguments \cap {"self", "name"} # {}
        THEN Raises("TypeError", <<"got multiple values for argument">>)
    ELSE LET out == execute_tool(t, name, arguments)
         IN  IF out.kind = "raise" /\ out.exc.type = "ToolNotFoundError"
             THEN [kind |-> "raise",
                   exc |-> ToolError(<<"Tool '", name, "' not found">>)]
             ELSE out

\* The try block of one loop iteration: the value tool_name is left with and
\* the outcome (the tool's result or the exception raised).
TryToolCall(t, tool_call, prev_name) ==
    LET function_data == FunctionData(tool_call)
    IN  IF ~IsMapping(function_data)
        THEN [tool_name |-> prev_name,
              out |-> Raises("AttributeError", <<"no attribute 'get'">>)]
        ELSE LET name == NameOf(function_data)
             IN  IF name = NoName
                 THEN [tool_name |-> name,
                       out |-> [kind |-> "raise",
                          exc |-> ToolError(<<"Missing tool name in tool call">>)]]
                 ELSE [tool_name |-> name,
                       out |-> CallRegistry(t, name,
                                            ArgumentsOf(function_data))]

\* Mutant: the per-call handler catches ToolError itself but not its
\* subclasses.
CaughtPerCall_base_only(exc) == exc.type = "ToolError"
\* except Exception in _execute_tools: every exception of a call is caught.
CaughtPerCall(exc) == TRUE

ToolResult(content, name) ==
    [role |-> "tool", content |-> content, tool_name |-> name]

\* One iteration of the loop of _execute_tools.  escapes: an exception
\* leaves _execute_tools (raised by the try block and not caught, or raised
\* by the except block when it reads a tool_name that was never assigned).
ExecuteOne(t, tool_call, prev_name) ==
    LET try == TryToolCall(t, tool_call, prev_name)
    IN  IF try.out.kind = "return"
        THEN [escapes |-> FALSE, tool_name |-> try.tool_name,
              result |-> ToolResult(<<Str(try.out.value)>>, try.tool_name)]
        ELSE IF ~CaughtPerCall(try.out.exc)
        THEN [escapes |-> TRUE, tool_name |-> try.tool_name,
              exc |-> try.out.exc]
        ELSE IF try.tool_name = Unbound
        THEN [escapes |-> TRUE, tool_name |-> try.tool_name,
              exc |-> [type |-> "UnboundLocalError",
                       msg |-> <<"local variable 'tool_name' referenced before assignment">>]]
        ELSE [escapes |-> FALSE, tool_name |-> try.tool_name,
              result |-> ToolResult(
                            <<"Tool execution failed: ">> \o try.out.exc.msg,
                            OrUnknown(try.tool_name))]

\* What the history variable exec_log records of one iteration.
Attempt(t, i, tool_call, prev_name) ==
    LET function_data == FunctionData(tool_call)
        reached == /\ IsMapping(function_data)
                   /\ NameOf(function_data) # NoName
                   /\ IsMapping(ArgumentsOf(function_data))
                   /\ DOMAIN ArgumentsOf(function_data)
                        \cap {"self", "name"} = {}
                   /\ DictHas(t, NameOf(function_data))
    IN  [index |-> i,
         invoked |-> reached,
         ok |-> TryToolCall(t, tool_call, prev_name).out.kind = "return"]
            @@ (IF reached
                THEN [name |-> NameOf(function_data),
                      handler |-> DictGet(t, NameOf(function_data)).name,
                      kwargs |-> ArgumentsOf(function_data)]
                ELSE <<>>)

----------------------------------------------------------------------------
(* The environment of a turn: user inputs, LLM outcomes, saved sessions *)

UserInputs == {"hello", "list files"}
Contents == {"hi"}
Timeouts == {5, 30}
ChatUrl == "http://localhost:11434/api/chat"

Call(name, arguments) ==
    [id |-> "", function |-> [name |-> name, arguments |-> arguments]]
\* The tool calls the model issues: a good call, a call that omits the
\* required argument, a tool that raises, an unregistered tool, a call
\* without a name and a call whose function field is null.
ToolCalls == {
    Call("calc", [x |-> 1]),
    Call("calc", <<>>),
    Call("boom", [x |-> 1]),
    Call("nope", <<>>),
    [id |-> "", function |-> [arguments |-> [x |-> 1]]],
    [id |-> "", function |-> NotAMapping]}
WellFormed(tool_call) == IsMapping(FunctionData(tool_call))

Batches == UNION {[1..n -> ToolCalls] : n \in 1..MaxBatch}

\* What llm_client.chat can do: return a message, raise an LLMError, or
\* (a substituted client) raise something else.
LLMOutcomes(t) ==
    {[kind |-> "message", content |-> <<c>>, tool_calls |-> <<>>] :
        c \in Contents}
    \cup {[kind |-> "message", content |-> <<c>>, tool_calls |-> b] :
            c \in Contents, b \in Batches}
    \cup {Raises(e.type, e.msg) :
            e \in {LLMTimeoutError(t),
                   LLMConnectionError(ChatUrl, <<"refused">>),
                   [type |-> "RuntimeError", msg |-> <<"client failure">>]}}

\* The registry the tool modules build at import time.
StartTools ==
    register_tools(register_tools(<<>>, "calc", HandlerNamed("calc")),
                   "boom", HandlerNamed("boom"))
StartToolInfo ==
    register_tool_info(
        register_tool_info(<<>>, "calc", HandlerNamed("calc"),
                           [description |-> <<"Calculate">>]),
        "boom", HandlerNamed("boom"), <<>>)

\* Histories a session file can hold (written by an earlier run, stamped
\* before this run's clock starts).
Saved(role, ts) == NewMessage(role, <<"old">>, NoKw, ts)
SavedHistories == {
    <<Saved("user", -2), Saved("assistant", -1)>>,
    <<Saved("system", -3), Saved("user", -2), Saved("error", -1)>>}

\* The history variable returned: how the last process_message call ended.
\* The history variable last_reg: per name, the arguments of its last
\* registration, how often it was registered, the function before and the
\* number of the register_tool call that registered it first.
NoRegistration == [times |-> 0]
NeverRegistered == [n \in ToolNames |-> NoRegistration]

\* The history variable last_call: the last call made on a bare component.
NoCall == [op |-> "none"]

\* _registry is None before the first access: instances are numbered from
\* 1 in order of construction and no instance has number 0.
None == 0
\* No ToolRegistry instance of the caller's own.
NoRegistry == [id |-> None, tools |-> <<>>, tool_info |-> <<>>]

NotReturned == [done |-> FALSE]
ReturnedValue(text) == [done |-> TRUE, raised |-> FALSE, value |-> text]
ReturnedError(text, exc) ==
    [done |-> TRUE, raised |-> FALSE, value |-> text, error |-> exc]
Escaped(exc) == [done |-> TRUE, raised |-> TRUE, exc |-> exc]

----------------------------------------------------------------------------
(* ChatAgent *)

\* Mutant: process_message without its except Exception clause.
CaughtAtBoundary_llm_only(exc) == exc.type \in LLMErrorTypes
\* The except clauses of process_message: LLMError, then Exception.
CaughtAtBoundary(exc) == TRUE
ErrorText(exc) ==
    IF exc.type \in LLMErrorTypes THEN <<"LLM Error: ">> \o exc.msg
    ELSE <<"Unexpected error: ">> \o exc.msg

\* The interpreter's recursion limit (sys.getrecursionlimit()): each
\* _handle_tool_calls call that continues a chain runs inside the previous
\* one, so a chain holds one more frame per round.
RecursionLimit == 1000
RecursionError ==
    [type |-> "RecursionError", msg |-> <<"maximum recursion depth exceeded">>]

\* An exception reaches the boundary of process_message, the history being
\* h, ts messages stamped and app appended in the turn so far.
TurnFailsAfter(h, ts, app, exc) ==
    IF CaughtAtBoundary(exc)
    THEN LET msg == NewMessage("error", ErrorText(exc), NoKw, ts + 1)
         IN  /\ history' = add_message(h, msg, max_history)
             /\ clock' = ts + 1
             /\ appended' = Append(app, msg)
             /\ returned' = ReturnedError(ErrorText(exc), exc)
             /\ pc' = "Idle"
             /\ depth' = 0
    ELSE /\ returned' = Escaped(exc)
         /\ pc' = "Idle"
         /\ depth' = 0
         /\ history' = h
         /\ clock' = ts
         /\ appended' = app
TurnFails(exc) == TurnFailsAfter(history, clock, appended, exc)

\* ChatAgent.load_history (main.py resumes a session before the first turn)
load_history(saved) ==
    /\ pc = "Idle"
    /\ clock = 0
    /\ history = <<>>
    /\ history' = saved
    /\ installed' = saved
    /\ UNCHANGED <<config_vars, module_vars, clock, registry_vars, turn_vars, turn_logs,
                   reg_logs>>

\* process_message up to its first llm_client.chat call.
process_message(user_input) ==
    /\ pc = "Idle"
    /\ clock + 2 <= MaxClock
    /\ LET msg == NewMessage("user", <<user_input>>, NoKw, clock + 1)
           h1 == add_message(history, msg, max_history)
           system_prompt == build_system_prompt(tool_info, FALSE)
           context == get_context_messages(h1, system_prompt, max_history)
           tools_schema == get_tools_schema(tool_info)
       IN  /\ history' = h1
           /\ clock' = clock + 1
           /\ context_messages' = context
           /\ llm_log' = <<[messages |-> context, tools |-> tools_schema]>>
           /\ appended' = <<msg>>
    /\ pc' = "AwaitingLLM"
    /\ llm_responses' = <<>>
    /\ turn_input' = user_input
    /\ exec_log' = <<>>
    /\ returned' = NotReturned
    /\ tool_calls' = <<>>
    /\ idx' = 0
    /\ results' = <<>>
    /\ tool_name' = Unbound
    /\ depth' = 0
    /\ UNCHANGED <<config_vars, module_vars, registry_vars, installed, reg_logs>>

\* Mutant: the test reads "tool_calls is not None or an empty list too".
HasToolCalls_always(response) == TRUE
\* if response.message.tool_calls: (None and the empty list are both falsy)
HasToolCalls(response) == response.tool_calls # <<>>

\* llm_client.chat returns or raises, and the caller (process_message for
\* the first call, _handle_tool_calls for a continuation call) handles it.
llm_returns(outcome) ==
    /\ pc = "AwaitingLLM"
    /\ llm_responses' = Append(llm_responses, outcome)
    /\ IF outcome.kind = "raise"
       THEN /\ TurnFails(outcome.exc)
            /\ UNCHANGED <<tool_calls, idx, results, tool_name>>
       ELSE IF ~HasToolCalls(outcome)
       THEN LET msg == NewMessage("assistant", outcome.content, NoKw,
                                  clock + 1)
            IN  /\ history' = add_message(history, msg, max_history)
                /\ clock' = clock + 1
                /\ appended' = Append(appended, msg)
                /\ returned' = ReturnedValue(outcome.content)
                /\ pc' = "Idle"
                /\ depth' = 0
                /\ UNCHANGED <<tool_calls, idx, results, tool_name>>
       ELSE LET msg == NewMessage("assistant", outcome.content,
                                  [tool_calls |-> outcome.tool_calls],
                                  clock + 1)
            IN  IF depth < recursion_limit
                THEN /\ clock + Len(outcome.tool_calls) + 2 <= MaxClock
                     /\ history' = add_message(history, msg, max_history)
                     /\ clock' = clock + 1
                     /\ appended' = Append(appended, msg)
                     /\ tool_calls' = outcome.tool_calls
                     /\ idx' = 1
                     /\ results' = <<>>
                     /\ tool_name' = Unbound
                     /\ depth' = depth + 1
                     /\ pc' = "DispatchingTools"
                     /\ UNCHANGED returned
                ELSE \* the stack is exhausted inside this round: the
                     \* assistant entry is appended, then RecursionError
                     \* leaves _handle_tool_calls
                     /\ clock + 2 <= MaxClock
                     /\ TurnFailsAfter(
                            add_message(history, msg, max_history),
                            clock + 1, Append(appended, msg), RecursionError)
                     /\ UNCHANGED <<tool_calls, idx, results, tool_name>>
    /\ UNCHANGED <<config_vars, module_vars, registry_vars, context_messages, llm_log,
                   turn_input, exec_log, installed, reg_logs>>

\* Mutant: the loop of _execute_tools stops after the first call.
LoopDone_after_first(i, batch) == i > 1
\* for i, tool_call in enumerate(tool_calls): the loop is over once every
\* element was visited (i is the 1-based position of the next element).
LoopDone(i, batch) == i > Len(batch)

\* One iteration of the loop of _execute_tools.
execute_tool_call ==
    /\ pc = "DispatchingTools"
    /\ ~LoopDone(idx, tool_calls)
    /\ LET step == ExecuteOne(tools, tool_calls[idx], tool_name)
       IN  /\ exec_log' = Append(exec_log,
                            Attempt(tools, idx, tool_calls[idx], tool_name))
           /\ tool_name' = step.tool_name
           /\ IF step.escapes
              THEN /\ TurnFails(step.exc)
                   /\ UNCHANGED <<idx, results>>
              ELSE /\ results' = Append(results, step.result)
                   /\ idx' = idx + 1
                   /\ UNCHANGED <<history, clock, appended, returned, pc,
                                  depth>>
    /\ UNCHANGED <<config_vars, module_vars, registry_vars, context_messages, tool_calls,
                   llm_log, llm_responses, turn_input, installed, reg_logs>>

\* The messages add_message stamps for a list of tool results.
ToolMessages(rs, ts) ==
    [i \in 1..Len(rs) |->
        NewMessage("tool", rs[i].content, [tool_name |-> rs[i].tool_name],
                   ts + i)]
RECURSIVE add_messages(_, _, _)
add_messages(h, msgs, M) ==
    IF msgs = <<>> THEN h
    ELSE add_messages(add_message(h, Head(msgs), M), Tail(msgs), M)

\* Mutant: the continuation call offers the tools again.
ContinuationCall_with_tools(messages, tools_schema) ==
    [messages |-> messages, tools |-> tools_schema]
\* The tools argument of the continuation call: _handle_tool_calls calls
\* chat(context_messages) and leaves tools at its default, None.
ContinuationCall(messages, tools_schema) == [messages |-> messages]

\* Mutant: the context of the continuation call is rebuilt from the system
\* message and the results only.
ExtendContext_rebuilt(context, rs) == <<Head(context)>> \o rs
\* for result in tool_results: context_messages.append(result)
ExtendContext(context, rs) == context \o rs

\* _handle_tool_calls after _execute_tools returned: the results go to the
\* context and to the conversation, then the LLM is called again.
continue_after_tools ==
    /\ pc = "DispatchingTools"
    /\ LoopDone(idx, tool_calls)
    /\ LET msgs == ToolMessages(results, clock)
           context == ExtendContext(context_messages, results)
       IN  /\ history' = add_messages(history, msgs, max_history)
           /\ clock' = clock + Len(results)
           /\ appended' = appended \o msgs
           /\ context_messages' = context
           /\ llm_log' = Append(llm_log,
                ContinuationCall(context, get_tools_schema(tool_info)))
    /\ pc' = "AwaitingLLM"
    /\ UNCHANGED <<config_vars, module_vars, registry_vars, tool_calls, idx, results,
                   tool_name, depth, llm_responses, turn_input, exec_log,
                   returned, installed, reg_logs>>

AgentInit ==
    /\ max_history \in 0..MaxMaxHistory
    /\ timeout \in Timeouts
    /\ history = <<>>
    /\ clock = 0
    /\ tools = StartTools
    /\ tool_info = StartToolInfo
    /\ pc = "Idle"
    /\ context_messages = <<>>
    /\ tool_calls = <<>>
    /\ idx = 0
    /\ results = <<>>
    /\ tool_name = Unbound
    /\ depth = 0
    /\ llm_log = <<>>
    /\ llm_responses = <<>>
    /\ turn_input = ""
    /\ exec_log = <<>>
    /\ appended = <<>>
    /\ returned = NotReturned
    /\ installed = <<>>
    /\ last_reg = NeverRegistered
    /\ reg_count = 0
    /\ last_call = NoCall
    /\ registry = 1
    /\ constructed = 1
    /\ own_registry = NoRegistry
    /\ loaded_plugins = <<>>

\* A start with the interpreter's default limit, which no turn of the model
\* reaches, and a start under a small limit (sys.setrecursionlimit), which a
\* chain of the model does reach.
Init == AgentInit /\ recursion_limit = RecursionLimit
InitChain == AgentInit /\ recursion_limit \in 1..MaxNesting

Next ==
    \/ \E saved \in SavedHistories : load_history(saved)
    \/ \E user_input \in UserInputs : process_message(user_input)
    \/ \E outcome \in LLMOutcomes(timeout) : llm_returns(outcome)
    \/ execute_tool_call
    \/ continue_after_tools

Spec == Init /\ [][Next]_vars
SpecChain == InitChain /\ [][Next]_vars

TypeOK ==
    /\ pc \in {"Idle", "AwaitingLLM", "DispatchingTools"}
    /\ clock \in 0..MaxClock

----------------------------------------------------------------------------
(* Properties of a turn *)

IsToolMsg(msg) == msg.role = "tool"
IsErrorMsg(msg) == msg.role = "error"
CarriesToolCalls(msg) == "tool_calls" \in DOMAIN msg
AsksForTools(outcome) == outcome.kind = "message" /\ outcome.tool_calls # <<>>
PlainMessage(outcome) == outcome.kind = "message" /\ outcome.tool_calls = <<>>

\* The call names a registered tool and the handler returns for its arguments.
CallSucceeds(tool_call) ==
    /\ "function" \in DOMAIN tool_call
    /\ DOMAIN tool_call.function = {"name", "arguments"}
    /\ \E i \in 1..Len(tools) : tools[i].key = tool_call.function.name
    /\ \A i \in 1..Len(tools) :
            tools[i].key = tool_call.function.name
                => Invoke(tools[i].value,
                          tool_call.function.arguments).kind = "return"
\* What the handler of a succeeding call returns.
HandlerValue(tool_call) ==
    LET i == CHOOSE j \in 1..Len(tools) :
                tools[j].key = tool_call.function.name
    IN  Invoke(tools[i].value, tool_call.function.arguments).value
\* A result fits its call: the real result, or an error description.
ResultFits(tool_call, result) ==
    /\ result.role = "tool"
    /\ IF CallSucceeds(tool_call)
       THEN /\ result.content = <<Str(HandlerValue(tool_call))>>
            /\ result.tool_name = tool_call.function.name
       ELSE /\ Len(result.content) > 1
            /\ result.content[1] = "Tool execution failed: "
\* The failures of the batch are of the listed kinds (unknown tool, missing
\* name, invalid arguments, handler exception).
ListedFailuresOnly(batch) == \A k \in 1..Len(batch) : WellFormed(batch[k])
\* Position in appended of the assistant entry of the current batch.
BatchEntry ==
    CHOOSE j \in 1..Len(appended) :
        /\ CarriesToolCalls(appended[j])
        /\ \A k \in (j + 1)..Len(appended) : ~CarriesToolCalls(appended[k])

C2_SingleToolChaining ==
    (/\ returned.done
     /\ Len(llm_responses) = 2
     /\ AsksForTools(llm_responses[1])
     /\ Len(llm_responses[1].tool_calls) = 1
     /\ CallSucceeds(llm_responses[1].tool_calls[1])
     /\ PlainMessage(llm_responses[2])) =>
        LET request == llm_responses[1].tool_calls[1]
            tool_entries == SelectSeq(appended, IsToolMsg)
        IN  /\ Len(exec_log) = 1
            /\ exec_log[1].invoked
            /\ exec_log[1].ok
            /\ exec_log[1].name = request.function.name
            /\ exec_log[1].handler
                    = DictGet(tools, request.function.name).name
            /\ exec_log[1].kwargs = request.function.arguments
            /\ Len(tool_entries) = 1
            /\ tool_entries[1].content = <<Str(HandlerValue(request))>>
            /\ Len(llm_log) = 2
            /\ ~returned.raised
            /\ returned.value = llm_responses[2].content
C2_Witness ==
    /\ returned.done
    /\ Len(llm_responses) = 2
    /\ AsksForTools(llm_responses[1])
    /\ Len(llm_responses[1].tool_calls) = 1
    /\ CallSucceeds(llm_responses[1].tool_calls[1])
    /\ PlainMessage(llm_responses[2])
    /\ Len(history) < Len(appended)

\* C3: no-tool-call round trip.  When the first response of a turn carries
\* no tool calls, the LLM was called exactly once, no tool was executed,
\* exactly two entries were appended (a user entry with the input, then an
\* assistant entry with the response content) and that content was returned.
C3_NoToolCallRoundTrip ==
    (llm_responses # <<>> /\ PlainMessage(llm_responses[1])) =>
        /\ pc = "Idle"
        /\ Len(llm_log) = 1
        /\ Len(llm_responses) = 1
        /\ exec_log = <<>>
        /\ Len(appended) = 2
        /\ appended[1].role = "user"
        /\ appended[1].content = <<turn_input>>
        /\ appended[2].role = "assistant"
        /\ appended[2].content = llm_responses[1].content
        /\ ~CarriesToolCalls(appended[2])
        /\ returned.done
        /\ ~returned.raised
        /\ returned.value = llm_responses[1].content
C3_Witness ==
    /\ llm_responses # <<>>
    /\ PlainMessage(llm_responses[1])
    /\ returned.done
    /\ turn_input = "list files"

\* The turn ended on an LLMError raised by the last LLM call.
EndedOnLLMError ==
    /\ llm_responses # <<>>
    /\ Last(llm_responses).kind = "raise"
    /\ Last(llm_responses).exc.type \in LLMErrorTypes
\* What C4 says apart from its last clause.
LLMErrorHandled ==
    /\ pc = "Idle"
    /\ returned.done
    /\ ~returned.raised
    /\ Len(SelectSeq(appended, IsErrorMsg)) = 1
    /\ Last(appended).role = "error"
    /\ Last(appended).content = returned.value
    /\ Len(llm_log) = Len(llm_responses)
    /\ Len(exec_log) = Len(SelectSeq(appended, IsToolMsg))
    /\ Last(llm_responses).exc.type = "LLMTimeoutError"
        => \E i \in 1..Len(returned.value) :
                returned.value[i] = ToString(timeout)

\* C4 as stated: LLM error policy, with every entry appended in the turn
\* still in history after the error.
C4_AsStated ==
    EndedOnLLMError =>
        /\ LLMErrorHandled
        /\ \A i \in 1..Len(appended) : appended[i] \in Range(history)

\* C4 (amended): if an LLM call of a turn raises an LLMError, process_message
\* appends exactly one error-role entry whose content is the returned string,
\* returns it without raising, and makes no further LLM call or tool
\* execution in the turn; for a timeout the string contains the configured
\* timeout; the entries of the turn are not rolled back: the last max_history
\* of them (all of them when max_history is 0) end the history, older ones
\* may have been evicted by the retention trim.
C4_LLMErrorPolicy ==
    EndedOnLLMError =>
        /\ LLMErrorHandled
        /\ LET kept == SliceFrom(appended, 0 - max_history)
           IN  SliceFrom(history, 0 - Len(kept)) = kept
C4_Witness ==
    /\ EndedOnLLMError
    /\ Len(llm_responses) = 2
    /\ Last(llm_responses).exc.type = "LLMTimeoutError"
    /\ timeout = 5
    /\ \E i \in 1..Len(appended) : appended[i] \notin Range(history)

\* An exception that is not an LLMError reached the boundary of
\* process_message in the last turn.
UnexpectedFailure ==
    /\ returned.done
    /\ \/ returned.raised
       \/ /\ "error" \in DOMAIN returned
          /\ returned.error.type \notin LLMErrorTypes

\* C5: process_message never raises.  Every turn ends by returning; an
\* exception that is not an LLMError (from the LLM client, or out of the
\* dispatch loop) is caught at the boundary, recorded as exactly one
\* error-role entry and returned as the turn's text, and the agent is idle
\* again, ready for the next turn; an exception of a tool never reaches the
\* boundary.
C5_NeverRaises ==
    /\ returned.done => ~returned.raised
    /\ (llm_responses # <<>> /\ Last(llm_responses).kind = "raise")
            => returned.done
    /\ UnexpectedFailure =>
        /\ pc = "Idle"
        /\ Len(SelectSeq(appended, IsErrorMsg)) = 1
        /\ Last(appended).role = "error"
        /\ Last(appended).content = returned.value
        /\ returned.value = <<"Unexpected error: ">> \o returned.error.msg
    /\ (returned.done /\ "error" \in DOMAIN returned)
            => returned.error.type
                    \notin ToolErrorTypes \cup {"TypeError", "Exception"}
\* A turn failed unexpectedly and the next turn is under way.
C5_Witness ==
    /\ pc = "AwaitingLLM"
    /\ Len(appended) = 1
    /\ \E i \in 1..Len(history) :
            /\ history[i].role = "error"
            /\ history[i].timestamp > 0
            /\ history[i].content[1] = "Unexpected error: "
            /\ history[i].content[2]
                    = "local variable 'tool_name' referenced before assignment"

\* C9: tools are offered only on the first call of a turn.  The first LLM
\* call of a turn passes the tool schema list of the registry; every
\* continuation call, at any chaining depth, passes no tools argument.
C9_ToolsOnFirstCallOnly ==
    \A k \in 1..Len(llm_log) :
        IF k = 1
        THEN /\ "tools" \in DOMAIN llm_log[k]
             /\ llm_log[k].tools = get_tools_schema(tool_info)
        ELSE "tools" \notin DOMAIN llm_log[k]
C9_Witness == Len(llm_log) = 3

----------------------------------------------------------------------------
(* A bare ConversationManager: add_message with any role, load_history      *)
(* before the first append, get_context_messages at any time                *)

Extras(role) ==
    IF role = "assistant"
        THEN {NoKw, [tool_calls |-> <<Call("calc", [x |-> 1])>>]}
    ELSE IF role = "tool" THEN {[tool_name |-> "calc"]}
    ELSE {NoKw}
Prompts == {build_system_prompt(StartToolInfo, FALSE), FallbackPrompt}

\* ConversationManager.add_message(role, content, **kwargs)
conv_add_message(role, kwargs) ==
    /\ clock < MaxAppends
    /\ LET msg == NewMessage(role, <<"m">>, kwargs, clock + 1)
       IN  /\ history' = add_message(history, msg, max_history)
           /\ appended' = <<msg>>
    /\ clock' = clock + 1
    /\ context_messages' = <<>>
    /\ last_call' = NoCall
    /\ UNCHANGED <<config_vars, module_vars, registry_vars, pc, tool_calls, idx, results,
                   tool_name, depth, llm_log, llm_responses, turn_input,
                   exec_log, returned, installed, last_reg, reg_count>>

\* ChatAgent.load_history on a fresh agent
conv_load_history(saved) ==
    /\ clock = 0
    /\ history = <<>>
    /\ history' = saved
    /\ installed' = saved
    /\ context_messages' = <<>>
    /\ last_call' = NoCall
    /\ UNCHANGED <<config_vars, module_vars, clock, registry_vars, pc, tool_calls, idx,
                   results, tool_name, depth, turn_logs, last_reg, reg_count>>

\* ConversationManager.get_context_messages(system_prompt)
conv_get_context_messages(system_prompt) ==
    /\ last_call.op # "get_context_messages"
    /\ context_messages' =
            get_context_messages(history, system_prompt, max_history)
    /\ last_call' = [op |-> "get_context_messages",
                     system_prompt |-> system_prompt]
    /\ UNCHANGED <<config_vars, module_vars, history, clock, registry_vars, pc,
                   tool_calls, idx, results, tool_name, depth, turn_logs,
                   installed, last_reg, reg_count>>

SystemOnly(n) == [i \in 1..n |-> Saved("system", i - n - 1)]
ConvHistories ==
    SavedHistories
    \cup {SystemOnly(2)}
    \cup {<<Saved("user", -4),
            NewMessage("assistant", <<"old">>,
                       [tool_calls |-> <<Call("calc", [x |-> 1])>>], -3),
            NewMessage("tool", <<"42">>, [tool_name |-> "calc"], -2),
            Saved("assistant", -1)>>}

InitConv == Init

NextConv ==
    \/ \E role \in Roles : \E kwargs \in Extras(role) :
            conv_add_message(role, kwargs)
    \/ \E saved \in ConvHistories : conv_load_history(saved)
    \/ \E system_prompt \in Prompts : conv_get_context_messages(system_prompt)

SpecConv == InitConv /\ [][NextConv]_vars

\* C7: system messages are never evicted by appends.  Across every
\* add_message call, with any role, every system-role message of the history
\* (appended earlier or installed by load_history) is still in the history
\* afterwards; a message that leaves the history is a non-system message
\* that is not among the last max_history entries; and nothing enters the
\* history but the message being appended, so a discarded message never
\* reappears.
C7_SystemNeverEvicted ==
    [][clock' = clock + 1 =>
        LET msg == Last(history')
            before == Append(history, msg)
        IN  /\ \A m \in Range(history) : IsSystem(m) => m \in Range(history')
            /\ \A m \in Range(before) \ Range(history') :
                    /\ ~IsSystem(m)
                    /\ m \notin Range(SliceFrom(before, 0 - max_history))
            /\ Range(history') \subseteq Range(history) \cup {msg}
            /\ msg.timestamp = clock + 1
            /\ \A m \in Range(history) : m.timestamp <= clock
    ]_vars
C7_Witness ==
    /\ \E i \in 1..Len(history) :
            IsSystem(history[i]) /\ history[i].timestamp > 0
    /\ \E i \in 1..Len(installed) :
            IsSystem(installed[i]) /\ installed[i] \in Range(history)
    /\ \E i \in 1..Len(installed) : installed[i] \notin Range(history)
    /\ max_history = 1
    /\ clock >= 2

\* The last n entries of a history, none when n is 0.
LastEntries(h, n) == SubSeq(h, Max(Len(h) - n, 0) + 1, Len(h))
\* The {role, content} message of an entry, with tool_calls and tool_name
\* when the entry has them, without its timestamp.
Projection(msg) ==
    [role |-> msg.role, content |-> msg.content]
        @@ (IF "tool_calls" \in DOMAIN msg
            THEN [tool_calls |-> msg.tool_calls] ELSE <<>>)
        @@ (IF "tool_name" \in DOMAIN msg
            THEN [tool_name |-> msg.tool_name] ELSE <<>>)

\* C8: context projection.  For every history and every max_history >= 0,
\* get_context_messages(p) is {role: system, content: p} followed, in
\* history order, by the projection of exactly those of the last max_history
\* entries whose role is user, assistant or tool; system and error entries
\* are left out; the list has at most max_history + 1 elements and exactly
\* one system message.
C8_ContextProjection ==
    last_call.op = "get_context_messages" =>
        LET window == SelectSeq(LastEntries(history, max_history), InContext)
        IN  /\ context_messages =
                    <<[role |-> "system",
                       content |-> last_call.system_prompt]>>
                        \o [i \in 1..Len(window) |-> Projection(window[i])]
            /\ Len(context_messages) <= max_history + 1
            /\ Len(SelectSeq(context_messages, IsSystem)) = 1

----------------------------------------------------------------------------
(* History trimming: a history of system messages, then 2 * max_history + 5 *)
(* appends of non-system messages                                           *)

TrimAppends == 2 * max_history + 5

\* add_message with a non-system role, the next of the run of appends
trim_add_message(role) ==
    /\ clock < TrimAppends
    /\ LET msg == NewMessage(role, <<"m">>, NoKw, clock + 1)
       IN  history' = add_message(history, msg, max_history)
    /\ clock' = clock + 1
    /\ UNCHANGED <<config_vars, module_vars, registry_vars, turn_vars, turn_logs,
                   installed, reg_logs>>

\* max_history is positive (validation.py reports any other value as a
\* configuration issue); the history holds system messages only.
InitTrim ==
    /\ max_history \in 1..MaxMaxHistory
    /\ timeout \in Timeouts
    /\ \E n \in 0..MaxSystem :
            /\ history = SystemOnly(n)
            /\ installed = SystemOnly(n)
    /\ clock = 0
    /\ tools = StartTools
    /\ tool_info = StartToolInfo
    /\ pc = "Idle"
    /\ context_messages = <<>>
    /\ tool_calls = <<>>
    /\ idx = 0
    /\ results = <<>>
    /\ tool_name = Unbound
    /\ depth = 0
    /\ recursion_limit = RecursionLimit
    /\ llm_log = <<>>
    /\ llm_responses = <<>>
    /\ turn_input = ""
    /\ exec_log = <<>>
    /\ appended = <<>>
    /\ returned = NotReturned
    /\ last_reg = NeverRegistered
    /\ reg_count = 0
    /\ last_call = NoCall
    /\ registry = 1
    /\ constructed = 1
    /\ own_registry = NoRegistry
    /\ loaded_plugins = <<>>

NextTrim == \E role \in Roles \ {"system"} : trim_add_message(role)

SpecTrim == InitTrim /\ [][NextTrim]_vars

----------------------------------------------------------------------------
(* A bare ToolRegistry: registrations, lookups and executions               *)

RegNames == {"calc", "save_note"}
CustomSchema == [type |-> "object", properties |-> <<>>, required |-> <<>>]
StrictSchema ==
    [type |-> "object",
     properties |-> <<[key |-> "q", value |-> [type |-> "string"]]>>,
     required |-> <<"q">>]
RegOptions == {
    <<>>,
    [description |-> <<"A test tool">>, category |-> "test"],
    [schema |-> StrictSchema]}
CallNames == {"calc", "nope"}
CallArguments == {<<>>, [x |-> 1], [name |-> "n"]}

\* ToolRegistry.register_tool(name, function, description, category, schema)
reg_register_tool(name, function, opts) ==
    /\ reg_count < MaxRegs
    /\ tools' = register_tools(tools, name, function)
    /\ tool_info' = register_tool_info(tool_info, name, function, opts)
    /\ reg_count' = reg_count + 1
    /\ last_reg' = [last_reg EXCEPT ![name] =
            [times |-> last_reg[name].times + 1, function |-> function,
             opts |-> opts,
             first |-> IF last_reg[name].times = 0 THEN reg_count + 1
                       ELSE last_reg[name].first,
             previous |-> IF last_reg[name].times = 0 THEN ""
                          ELSE last_reg[name].function.name]]
    /\ last_call' = [op |-> "register_tool", name |-> name, raised |-> FALSE]
    /\ UNCHANGED <<config_vars, module_vars, history, clock, turn_vars, turn_logs,
                   installed>>

\* ToolRegistry.get_tool(name)
reg_get_tool(name) ==
    /\ last_call' = [op |-> "get_tool", name |-> name,
                     out |-> get_tool(tools, name)]
    /\ UNCHANGED <<config_vars, module_vars, history, clock, registry_vars, turn_vars,
                   turn_logs, installed, last_reg, reg_count>>

\* ToolRegistry.execute_tool(name, **kwargs)
reg_execute_tool(name, kwargs) ==
    /\ last_call' = [op |-> "execute_tool", name |-> name,
                     kwargs |-> kwargs,
                     out |-> call_execute_tool(tools, tool_info, name,
                                               kwargs)]
    /\ UNCHANGED <<config_vars, module_vars, history, clock, registry_vars, turn_vars,
                   turn_logs, installed, last_reg, reg_count>>

\* ToolRegistry.get_tools_schema()
reg_get_tools_schema ==
    /\ last_call' = [op |-> "get_tools_schema",
                     out |-> get_tools_schema(tool_info)]
    /\ UNCHANGED <<config_vars, module_vars, history, clock, registry_vars,
                   turn_vars, turn_logs, installed, last_reg, reg_count>>

\* ToolRegistry.get_tools_by_category()
reg_get_tools_by_category ==
    /\ last_call' = [op |-> "get_tools_by_category",
                     out |-> get_tools_by_category(tool_info)]
    /\ UNCHANGED <<config_vars, module_vars, history, clock, registry_vars,
                   turn_vars, turn_logs, installed, last_reg, reg_count>>

InitReg ==
    /\ max_history \in {10}
    /\ timeout \in {30}
    /\ history = <<>>
    /\ clock = 0
    /\ tools = <<>>
    /\ tool_info = <<>>
    /\ pc = "Idle"
    /\ context_messages = <<>>
    /\ tool_calls = <<>>
    /\ idx = 0
    /\ results = <<>>
    /\ tool_name = Unbound
    /\ depth = 0
    /\ recursion_limit = RecursionLimit
    /\ llm_log = <<>>
    /\ llm_responses = <<>>
    /\ turn_input = ""
    /\ exec_log = <<>>
    /\ appended = <<>>
    /\ returned = NotReturned
    /\ installed = <<>>
    /\ last_reg = NeverRegistered
    /\ reg_count = 0
    /\ last_call = NoCall
    /\ registry = None
    /\ constructed = 1
    /\ own_registry = NoRegistry
    /\ loaded_plugins = <<>>

NextReg ==
    \/ \E name \in RegNames : \E function \in Handlers :
        \E opts \in RegOptions : reg_register_tool(name, function, opts)
    \/ \E name \in CallNames : reg_get_tool(name)
    \/ \E name \in CallNames : \E kwargs \in CallArguments :
            reg_execute_tool(name, kwargs)
    \/ reg_get_tools_schema
    \/ reg_get_tools_by_category

SpecReg == InitReg /\ [][NextReg]_vars

Entries(d, k) == {i \in 1..Len(d) : d[i].key = k}

\* C10: last registration wins.  Once a name was registered (once or
\* several times, with registrations of other names in between), get_tool
\* returns the function of its last registration, execute_tool, when it
\* reaches a handler, gives what that function gives and not what an
\* earlier one gives, the stored
\* description, category and schema are those of the last registration, the
\* registry holds a single entry for the name, and no registration signals an
\* error.
C10_LastRegistrationWins ==
    /\ \A n \in RegNames : last_reg[n].times > 0 =>
        LET function == last_reg[n].function
            opts == last_reg[n].opts
            info == DictGet(tool_info, n)
        IN  /\ get_tool(tools, n) = Returns(function)
            /\ Cardinality(Entries(tools, n)) = 1
            /\ Cardinality(Entries(tool_info, n)) = 1
            /\ info.name = n
            /\ info.function = function
            /\ "description" \in DOMAIN opts
                    => info.description = opts.description
            /\ "description" \notin DOMAIN opts
                    => info.description \in {DocText(function), <<n, "()">>}
            /\ "category" \in DOMAIN opts => info.category = opts.category
            /\ "category" \notin DOMAIN opts
                    => info.category = auto_categorize(n)
            /\ "schema" \in DOMAIN opts => info.schema = opts.schema
            /\ "schema" \notin DOMAIN opts
                    => info.schema = auto_generate_schema(function)
    /\ \A n \in RegNames : last_reg[n].times = 0 =>
            Entries(tools, n) = {} /\ Entries(tool_info, n) = {}
    /\ last_call.op = "register_tool" => ~last_call.raised
    /\ (last_call.op = "get_tool" /\ last_call.name \in RegNames
            /\ last_reg[last_call.name].times > 0)
        => last_call.out = Returns(last_reg[last_call.name].function)
    /\ (last_call.op = "execute_tool" /\ last_call.name \in RegNames
            /\ last_reg[last_call.name].times > 0
            /\ DOMAIN last_call.kwargs \cap {"self", "name"} = {})
        => LET direct == Invoke(last_reg[last_call.name].function,
                                last_call.kwargs)
           IN  IF direct.kind = "return" THEN last_call.out = direct
               ELSE /\ last_call.out.kind = "raise"
                    /\ SliceFrom(last_call.out.exc.msg,
                                 0 - Len(direct.exc.msg)) = direct.exc.msg
C10_Witness ==
    /\ last_call.op = "execute_tool"
    /\ last_call.name = "calc"
    /\ last_reg["calc"].times = 2
    /\ last_reg["calc"].previous = "calc"
    /\ last_reg["calc"].function.name = "calc_v2"
    /\ last_reg["save_note"].times = 1
    /\ DictKeys(tools) = <<"calc", "save_note">>
    /\ last_call.out = Returns(StrVal("43"))

----------------------------------------------------------------------------
(* Properties of execute_tool and get_tool *)

ExecutedRegistered ==
    /\ last_call.op = "execute_tool"
    /\ \E i \in 1..Len(tools) : tools[i].key = last_call.name
\* What the handler registered under the called name does with the keywords.
Direct ==
    LET i == CHOOSE j \in 1..Len(tools) : tools[j].key = last_call.name
    IN  Invoke(tools[i].value, last_call.kwargs)
\* msg ends with the text of the cause.
Wraps(msg, cause) ==
    /\ Len(msg) >= Len(cause)
    /\ SubSeq(msg, Len(msg) - Len(cause) + 1, Len(msg)) = cause

\* C11: execute_tool outcome mapping.  For a registered name and every
\* keyword mapping, execute_tool returns the handler's value unchanged when
\* the handler returns, signals ToolValidationError when the invocation
\* raises TypeError, signals a ToolError whose text ends with the cause for
\* any other exception, and has no other outcome.
C11_OutcomeMapping ==
    ExecutedRegistered =>
        /\ Direct.kind = "return" => last_call.out = Direct
        /\ (Direct.kind = "raise" /\ Direct.exc.type = "TypeError")
            => /\ last_call.out.kind = "raise"
               /\ last_call.out.exc.type = "ToolValidationError"
               /\ Wraps(last_call.out.exc.msg, Direct.exc.msg)
        /\ (Direct.kind = "raise" /\ Direct.exc.type # "TypeError")
            => /\ last_call.out.kind = "raise"
               /\ last_call.out.exc.type = "ToolError"
               /\ Wraps(last_call.out.exc.msg, Direct.exc.msg)
        /\ \/ last_call.out.kind = "return"
           \/ last_call.out.exc.type \in {"ToolValidationError", "ToolError"}

\* C12: unknown names signal ToolNotFound.  For a name that is not
\* registered, get_tool and execute_tool (with any keywords) signal
\* ToolNotFoundError naming it; for a registered name get_tool returns the
\* handler last registered under it.
C12_UnknownNames ==
    /\ (last_call.op \in {"get_tool", "execute_tool"}
            /\ \A i \in 1..Len(tools) : tools[i].key # last_call.name)
        => last_call.out =
                [kind |-> "raise", exc |-> ToolNotFoundError(last_call.name)]
    /\ (last_call.op = "get_tool"
            /\ \E i \in 1..Len(tools) : tools[i].key = last_call.name)
        => last_call.out = Returns(last_reg[last_call.name].function)

\* The registry's metadata with another schema recorded for one tool.
WithSchema(ti, name, schema) ==
    [i \in 1..Len(ti) |->
        IF ti[i].key = name
        THEN [key |-> name, value |-> [ti[i].value EXCEPT !.schema = schema]]
        ELSE ti[i]]
AltSchemas ==
    {CustomSchema, StrictSchema} \cup {auto_generate_schema(f) : f \in Handlers}

\* C13: the schema is advisory only.  Whatever schema is recorded for a
\* registered tool, execute_tool gives the same result or the same error
\* for the same keywords, also when the keywords omit a field the schema
\* requires or carry a field the schema does not list.
C13_SchemaAdvisory ==
    ExecutedRegistered =>
        \A schema \in AltSchemas :
            call_execute_tool(tools,
                              WithSchema(tool_info, last_call.name, schema),
                              last_call.name, last_call.kwargs)
                = last_call.out
C13_Witness ==
    /\ ExecutedRegistered
    /\ last_call.name = "calc"
    /\ last_call.kwargs = [x |-> 1]
    /\ DictGet(tool_info, "calc").schema = StrictSchema
    /\ DictGet(tools, "calc").name = "calc"
    /\ last_call.out = Returns(IntVal(42))

----------------------------------------------------------------------------
(* Registration with inferred metadata: one register_tool call on a fresh   *)
(* registry, over the names and signatures the inference rules distinguish  *)

MaxInferRegs == 1
InferNames == ToolNames \ {"boom", "decorated_tool"}
InferHandlers == Handlers \cup {TypedHandler}
InferOptions == {<<>>, [category |-> "test"], [schema |-> CustomSchema]}

infer_register_tool(name, function, opts) ==
    /\ reg_count < MaxInferRegs
    /\ reg_register_tool(name, function, opts)

NextInfer ==
    \E name \in InferNames : \E function \in InferHandlers :
        \E opts \in InferOptions : infer_register_tool(name, function, opts)

SpecInfer == InitReg /\ [][NextInfer]_vars

\* The name, lower-cased, contains one of the words.
HasWord(name, words) ==
    \E w \in words :
        \E i \in 1..Len(Spell(name)) :
            /\ i + Len(w) - 1 <= Len(Spell(name))
            /\ \A k \in 1..Len(w) : LowerChar(Spell(name)[i + k - 1]) = w[k]
OtherWords ==
    RetrievalWords \cup CommunicationWords \cup CombinedWords
        \cup CalculationWords \cup SecurityWords
\* The names registered without a category argument.
Inferred ==
    {n \in InferNames :
        last_reg[n].times > 0 /\ "category" \notin DOMAIN last_reg[n].opts}
CategoryOf(n) == DictGet(tool_info, n).category

\* C14 as stated: every name containing save, write or store gets storage,
\* every name containing search, find or query gets search, and a name
\* matching no rule gets utility.
C14_AsStated ==
    \A n \in Inferred :
        /\ HasWord(n, StorageWords) => CategoryOf(n) = "storage"
        /\ HasWord(n, SearchWords) => CategoryOf(n) = "search"
        /\ ~HasWord(n, GenerationWords \cup StorageWords \cup SearchWords
                            \cup OtherWords)
            => CategoryOf(n) = "utility"

\* C14: category inference.  Without a category argument, a name (compared
\* in lower case) containing generate gets generation; otherwise a name
\* containing save, write or store gets storage; otherwise a name containing
\* search, find or query gets search; a name matching no rule gets utility.
C14_CategoryInference ==
    \A n \in Inferred :
        /\ HasWord(n, GenerationWords) => CategoryOf(n) = "generation"
        /\ (HasWord(n, StorageWords) /\ ~HasWord(n, GenerationWords))
            => CategoryOf(n) = "storage"
        /\ (HasWord(n, SearchWords)
                /\ ~HasWord(n, GenerationWords \cup StorageWords))
            => CategoryOf(n) = "search"
        /\ ~HasWord(n, GenerationWords \cup StorageWords \cup SearchWords
                            \cup OtherWords)
            => CategoryOf(n) = "utility"
C14_Witness ==
    /\ "search_and_save" \in Inferred
    /\ CategoryOf("search_and_save") = "storage"
    /\ last_call.op = "register_tool"

\* The JSON type the claim gives an annotation.
JsonType(annotation) ==
    IF annotation = "int" THEN "integer"
    ELSE IF annotation = "float" THEN "number"
    ELSE IF annotation = "bool" THEN "boolean"
    ELSE IF annotation = "list" THEN "array"
    ELSE IF annotation = "dict" THEN "object"
    ELSE "string"
\* The positions of the non-variadic parameters of a callable.
NamedPositions(f) ==
    {i \in 1..Len(f.params) :
        f.params[i].kind \notin {"VAR_POSITIONAL", "VAR_KEYWORD"}}
\* names lists exactly the parameters at the positions, in parameter order.
ListsInOrder(names, f, positions) ==
    /\ Len(names) = Cardinality(positions)
    /\ \A i \in positions : \E j \in 1..Len(names) : names[j] = f.params[i].name
    /\ \A j, k \in 1..Len(names) :
            j < k => \E a, b \in positions :
                        /\ a < b
                        /\ f.params[a].name = names[j]
                        /\ f.params[b].name = names[k]
\* The names registered without a schema argument.
SchemaInferred ==
    {n \in InferNames :
        last_reg[n].times > 0 /\ "schema" \notin DOMAIN last_reg[n].opts}

\* C15: schema inference.  Without a schema argument the recorded schema has
\* type object, one property per non-variadic parameter in parameter order
\* and none for *args or **kwargs, each with the JSON type of its
\* annotation (string when there is none or another one), and required
\* lists exactly the parameters without a default, in parameter order; for
\* f(a: str, b: int = 0) required is [a] and b has type integer.
C15_SchemaInference ==
    \A n \in SchemaInferred :
        LET f == last_reg[n].function
            schema == DictGet(tool_info, n).schema
            keys == [j \in 1..Len(schema.properties) |->
                        schema.properties[j].key]
        IN  /\ schema.type = "object"
            /\ ListsInOrder(keys, f, NamedPositions(f))
            /\ \A j \in 1..Len(keys) : \A i \in NamedPositions(f) :
                    f.params[i].name = keys[j]
                        => schema.properties[j].value.type
                                = JsonType(f.params[i].annotation)
            /\ ListsInOrder(schema.required, f,
                    {i \in NamedPositions(f) : ~f.params[i].has_default})
            /\ f.name = "mix"
                    => /\ schema.required = <<"a">>
                       /\ \E j \in 1..Len(keys) :
                            /\ keys[j] = "b"
                            /\ schema.properties[j].value.type = "integer"
C15_Witness ==
    /\ "calc" \in SchemaInferred
    /\ last_reg["calc"].function = TypedHandler
    /\ DictGet(tool_info, "calc").schema.required = <<"items", "ratio">>
    /\ Len(DictGet(tool_info, "calc").schema.properties) = 4

----------------------------------------------------------------------------
(* The shared registry: get_registry, the tool decorator, plugin loading    *)
(* and the accessors that reach the registry through get_registry           *)

MaxSharedOps == 2

\* The module state of src/tools/__init__.py: the global _registry and the
\* fields of the instance it refers to.
Shared ==
    [registry |-> registry, constructed |-> constructed, tools |-> tools,
     tool_info |-> tool_info, loaded_plugins |-> loaded_plugins]

\* Mutant: every access constructs a new registry.
get_registry_fresh(g) ==
    [registry |-> g.constructed + 1, constructed |-> g.constructed + 1,
     tools |-> <<>>, tool_info |-> <<>>, loaded_plugins |-> <<>>]
\* get_registry(): the module state after the call; the instance returned
\* is the one _registry then refers to.
get_registry(g) ==
    IF g.registry = None
    THEN [registry |-> g.constructed + 1, constructed |-> g.constructed + 1,
          tools |-> <<>>, tool_info |-> <<>>, loaded_plugins |-> <<>>]
    ELSE g

\* Mutant: the decorator hands the function back without registering it.
tool_returns_only(g, f, opts) == get_registry(g)
\* The decorator tool(fn, description, category, schema): the module state
\* after decorating f.
tool(g, f, opts) ==
    LET r == get_registry(g)
    IN  [r EXCEPT !.tools = register_tools(r.tools, f.name, f),
                  !.tool_info = register_tool_info(r.tool_info, f.name, f,
                                                   opts)]

\* The function of test_tool_decorator and the options it is decorated with.
DecoratedTool ==
    [name |-> "decorated_tool", doc |-> <<>>,
     params |-> <<Param("value", "str", FALSE)>>,
     body |-> "return", result |-> StrVal("Decorated: test")]
DecoratedHandlers == {DecoratedTool, HandlerNamed("calc")}
DecoratorOptions ==
    {<<>>, [description |-> <<"Decorated test tool">>, category |-> "test"]}

\* A function a plugin file decorates with @tool.
PluginTool(name) ==
    [name |-> name, doc |-> <<>>, params |-> <<>>, body |-> "return",
     result |-> StrVal(name)]
\* A *.py file of a plugin directory: its name, the tools its top-level
\* code has decorated when it finishes or raises, and the exception it
\* raises, if any.
PluginFile(name, registers, raises) ==
    [name |-> name, registers |-> registers, raises |-> raises]
NoError == [type |-> "none", msg |-> <<>>]
NotesFile == PluginFile(<<"notes", ".py">>, <<"save_note">>, NoError)
MailFile == PluginFile(<<"mail", ".py">>, <<"send_email">>, NoError)
BrokenFile ==
    PluginFile(<<"broken", ".py">>, <<"find_file">>,
               [type |-> "ValueError", msg |-> <<"bad constant">>])
SyntaxFile ==
    PluginFile(<<"syntax", ".py">>, <<>>,
               [type |-> "SyntaxError", msg |-> <<"invalid syntax">>])
MissingImportFile ==
    PluginFile(<<"needs_dep", ".py">>, <<>>,
               [type |-> "ImportError", msg |-> <<"No module named dep">>])
InitFile ==
    PluginFile(<<"__", "init__", ".py">>, <<"read_file">>, NoError)
\* A plugin directory: whether it exists and what plugin_path.glob("*.py")
\* yields, in the order the file system gives.
Directory(exists, files) == [exists |-> exists, files |-> files]
Directories ==
    {Directory(FALSE, <<>>), Directory(TRUE, <<>>),
     Directory(TRUE, <<InitFile>>),
     Directory(TRUE, <<BrokenFile, NotesFile>>),
     Directory(TRUE, <<MissingImportFile, MailFile>>),
     Directory(TRUE, <<NotesFile, InitFile, SyntaxFile, MailFile>>)}

\* plugin_file.name.startswith('__')
StartsWithDunder(name) == name # <<>> /\ Head(name) = "__"

\* Executing a file's top-level code: its decorators run in order.
RECURSIVE decorate_all(_, _)
decorate_all(g, names) ==
    IF names = <<>> THEN g
    ELSE decorate_all(tool(g, PluginTool(Head(names)), <<>>), Tail(names))

\* Mutant: only import errors of a file are caught.
CaughtPerFile_import_only(exc) == exc.type = "ImportError"
\* except Exception around the loading of one file.
CaughtPerFile(exc) == TRUE

\* The loop over the files of a directory.  tracks: the file is appended to
\* _loaded_plugins when it loaded (ToolRegistry._load_plugin_file does,
\* ToolLoader._load_modules_from_path does not).  The result holds the
\* module state, the files attempted, the files whose failure was logged
\* and the exception that left the loop, if any.
RECURSIVE load_files(_, _, _, _, _)
load_files(g, files, attempted, failed, tracks) ==
    IF files = <<>>
    THEN [g |-> g, attempted |-> attempted, failed |-> failed,
          raised |-> FALSE]
    ELSE LET file == Head(files)
             after == decorate_all(g, file.registers)
         IN  IF StartsWithDunder(file.name)
             THEN load_files(g, Tail(files), attempted, failed, tracks)
             ELSE IF file.raises = NoError
             THEN load_files(
                    IF tracks
                    THEN [after EXCEPT !.loaded_plugins =
                                Append(after.loaded_plugins, file.name)]
                    ELSE after,
                    Tail(files), Append(attempted, file.name), failed,
                    tracks)
             ELSE IF CaughtPerFile(file.raises)
             THEN load_files(after, Tail(files),
                             Append(attempted, file.name),
                             Append(failed, file.name), tracks)
             ELSE [g |-> after, attempted |-> Append(attempted, file.name),
                   failed |-> failed, raised |-> TRUE, exc |-> file.raises]

\* ToolRegistry.load_plugins(plugin_dir) / ToolLoader.load_plugins(): a
\* directory that does not exist is left alone.
load_directory(g, dir, tracks) ==
    IF ~dir.exists
    THEN [g |-> g, attempted |-> <<>>, failed |-> <<>>, raised |-> FALSE]
    ELSE load_files(g, dir.files, <<>>, <<>>, tracks)

\* The variables of the shared registry after a call.
SetShared(g) ==
    /\ registry' = g.registry
    /\ constructed' = g.constructed
    /\ tools' = g.tools
    /\ tool_info' = g.tool_info
    /\ loaded_plugins' = g.loaded_plugins

\* What last_reg records of a registration on the shared registry.
NoteRegistration(name, function, opts) ==
    [last_reg EXCEPT ![name] =
        [times |-> last_reg[name].times + 1, function |-> function,
         opts |-> opts,
         first |-> IF last_reg[name].times = 0 THEN reg_count + 1
                   ELSE last_reg[name].first,
         previous |-> IF last_reg[name].times = 0 THEN ""
                      ELSE last_reg[name].function.name]]

\* @tool(...) def f: the decorator registers f and returns it.
shared_tool(f, opts) ==
    /\ reg_count < MaxSharedOps
    /\ SetShared(tool(Shared, f, opts))
    /\ reg_count' = reg_count + 1
    /\ last_reg' = NoteRegistration(f.name, f, opts)
    /\ last_call' = [op |-> "tool", name |-> f.name, out |-> Returns(f)]
    /\ UNCHANGED <<config_vars, own_registry, history, clock, turn_vars,
                   turn_logs, installed>>

\* get_registry().register_tool(name, function)
shared_register_tool(name, function) ==
    /\ reg_count < MaxSharedOps
    /\ LET r == get_registry(Shared)
       IN  SetShared([r EXCEPT
                !.tools = register_tools(r.tools, name, function),
                !.tool_info = register_tool_info(r.tool_info, name, function,
                                                 <<>>)])
    /\ reg_count' = reg_count + 1
    /\ last_reg' = NoteRegistration(name, function, <<>>)
    /\ last_call' = [op |-> "register_tool", name |-> name, raised |-> FALSE]
    /\ UNCHANGED <<config_vars, own_registry, history, clock, turn_vars,
                   turn_logs, installed>>

\* ToolRegistry(): a caller (the test fixture tool_registry) constructs an
\* instance of its own.
construct_registry ==
    /\ own_registry.id = None
    /\ own_registry' = [id |-> constructed + 1, tools |-> <<>>,
                        tool_info |-> <<>>]
    /\ constructed' = constructed + 1
    /\ last_call' = [op |-> "ToolRegistry"]
    /\ UNCHANGED <<config_vars, registry, loaded_plugins, registry_vars,
                   history, clock, turn_vars, turn_logs, installed, last_reg,
                   reg_count>>

\* own.register_tool(name, function) on the caller's own instance.
own_register_tool(name, function) ==
    /\ own_registry.id # None
    /\ reg_count < MaxSharedOps
    /\ own_registry' =
            [own_registry EXCEPT
                !.tools = register_tools(own_registry.tools, name, function),
                !.tool_info = register_tool_info(own_registry.tool_info,
                                                 name, function, <<>>)]
    /\ reg_count' = reg_count + 1
    /\ last_call' = [op |-> "own.register_tool", name |-> name]
    /\ UNCHANGED <<config_vars, registry, constructed, loaded_plugins,
                   registry_vars, history, clock, turn_vars, turn_logs,
                   installed, last_reg>>

\* ToolRegistry.load_plugins(plugin_dir) on the shared registry (tracks) and
\* ToolLoader.load_plugins() (does not track).
shared_load_plugins(dir, tracks) ==
    /\ reg_count < MaxSharedOps
    /\ LET before == get_registry(Shared)
           done == load_directory(before, dir, tracks)
       IN  /\ SetShared(done.g)
           /\ last_call' = [op |-> "load_plugins", dir |-> dir,
                            tracks |-> tracks, before |-> before,
                            attempted |-> done.attempted,
                            failed |-> done.failed, raised |-> done.raised]
    /\ reg_count' = reg_count + 1
    /\ UNCHANGED <<config_vars, own_registry, history, clock, turn_vars,
                   turn_logs, installed, last_reg>>

\* PromptBuilder.build_system_prompt(): enumeration_fails is whether the
\* try block raised before the prompt was assembled.
shared_build_system_prompt(enumeration_fails) ==
    /\ LET r == get_registry(Shared)
       IN  /\ SetShared(r)
           /\ last_call' = [op |-> "build_system_prompt",
                            fails |-> enumeration_fails,
                            registry |-> r.registry,
                            seen |-> list_tools(r.tools),
                            raised |-> FALSE,
                            out |-> build_system_prompt(r.tool_info,
                                                        enumeration_fails)]
    /\ UNCHANGED <<config_vars, own_registry, history, clock, turn_vars,
                   turn_logs, installed, last_reg, reg_count>>

\* The module function get_tools_schema(), as process_message calls it.
shared_get_tools_schema ==
    /\ LET r == get_registry(Shared)
       IN  /\ SetShared(r)
           /\ last_call' = [op |-> "get_tools_schema",
                            registry |-> r.registry,
                            seen |-> list_tools(r.tools),
                            out |-> get_tools_schema(r.tool_info)]
    /\ UNCHANGED <<config_vars, own_registry, history, clock, turn_vars,
                   turn_logs, installed, last_reg, reg_count>>

\* get_registry().execute_tool(name, **kwargs), as _execute_tools calls it.
shared_execute_tool(name, kwargs) ==
    /\ LET r == get_registry(Shared)
       IN  /\ SetShared(r)
           /\ last_call' = [op |-> "execute_tool", on |-> "shared",
                            name |-> name, kwargs |-> kwargs,
                            registry |-> r.registry,
                            seen |-> list_tools(r.tools),
                            out |-> call_execute_tool(r.tools, r.tool_info,
                                                      name, kwargs)]
    /\ UNCHANGED <<config_vars, own_registry, history, clock, turn_vars,
                   turn_logs, installed, last_reg, reg_count>>

\* own.execute_tool(name, **kwargs) on the caller's own instance.
own_execute_tool(name, kwargs) ==
    /\ own_registry.id # None
    /\ last_call' = [op |-> "execute_tool", on |-> "own",
                     name |-> name, kwargs |-> kwargs,
                     registry |-> own_registry.id,
                     seen |-> list_tools(own_registry.tools),
                     out |-> call_execute_tool(own_registry.tools,
                                               own_registry.tool_info,
                                               name, kwargs)]
    /\ UNCHANGED <<config_vars, module_vars, registry_vars, history, clock,
                   turn_vars, turn_logs, installed, last_reg, reg_count>>

SharedNames == {"decorated_tool", "calc"}
SharedArguments == {[value |-> "test"], [x |-> 1]}

InitShared ==
    /\ max_history \in {10}
    /\ timeout \in {30}
    /\ history = <<>>
    /\ clock = 0
    /\ tools = <<>>
    /\ tool_info = <<>>
    /\ pc = "Idle"
    /\ context_messages = <<>>
    /\ tool_calls = <<>>
    /\ idx = 0
    /\ results = <<>>
    /\ tool_name = Unbound
    /\ depth = 0
    /\ recursion_limit = RecursionLimit
    /\ llm_log = <<>>
    /\ llm_responses = <<>>
    /\ turn_input = ""
    /\ exec_log = <<>>
    /\ appended = <<>>
    /\ returned = NotReturned
    /\ installed = <<>>
    /\ last_reg = NeverRegistered
    /\ reg_count = 0
    /\ last_call = NoCall
    /\ registry = None
    /\ constructed = 0
    /\ own_registry = NoRegistry
    /\ loaded_plugins = <<>>

NextShared ==
    \/ \E f \in DecoratedHandlers : \E opts \in DecoratorOptions :
            shared_tool(f, opts)
    \/ \E function \in {HandlerNamed("calc_v2")} :
            shared_register_tool("calc", function)
    \/ construct_registry
    \/ \E function \in {HandlerNamed("calc")} :
            own_register_tool("calc", function)
    \/ \E dir \in Directories : \E tracks \in BOOLEAN :
            shared_load_plugins(dir, tracks)
    \/ \E enumeration_fails \in BOOLEAN :
            shared_build_system_prompt(enumeration_fails)
    \/ shared_get_tools_schema
    \/ \E name \in SharedNames : \E kwargs \in SharedArguments :
            shared_execute_tool(name, kwargs)
    \/ \E name \in SharedNames : \E kwargs \in SharedArguments :
            own_execute_tool(name, kwargs)

SpecShared == InitShared /\ [][NextShared]_vars

----------------------------------------------------------------------------
(* Properties of the registry's views *)

Registered == {n \in RegNames : last_reg[n].times > 0}
\* The description, category and schema of the last registration of a name.
LatestDescription(n) ==
    IF "description" \in DOMAIN last_reg[n].opts
    THEN last_reg[n].opts.description
    ELSE IF last_reg[n].function.doc # <<>>
    THEN [i \in 1..Len(last_reg[n].function.doc) |->
            last_reg[n].function.doc[i].text]
    ELSE <<n, "()">>
LatestCategory(n) ==
    IF "category" \in DOMAIN last_reg[n].opts
    THEN last_reg[n].opts.category
    ELSE auto_categorize(n)
LatestSchema(n) ==
    IF "schema" \in DOMAIN last_reg[n].opts
    THEN last_reg[n].opts.schema
    ELSE DictGet(tool_info, n).schema
\* A list of names holds the names of a set once each, first registered
\* first.
InRegistrationOrder(names, set) ==
    /\ Len(names) = Cardinality(set)
    /\ {names[i] : i \in 1..Len(names)} = set
    /\ \A i, j \in 1..Len(names) :
            i < j => last_reg[names[i]].first < last_reg[names[j]].first

\* C16: the registry's views agree with the registry.  After any sequence
\* of registrations, overwrites that change the category included,
\* get_tools_schema() has one function entry per registered name, in order
\* of first registration, with the latest description and schema, and
\* get_tools_by_category() puts every registered tool in exactly one list,
\* the list of its current category, has no empty list and keeps the order
\* of first registration inside every list.
C16_ViewsAgree ==
    /\ last_call.op = "get_tools_schema" =>
        LET out == last_call.out
        IN  /\ InRegistrationOrder(
                    [i \in 1..Len(out) |-> out[i].function.name], Registered)
            /\ \A i \in 1..Len(out) :
                    /\ DOMAIN out[i] = {"type", "function"}
                    /\ out[i].type = "function"
                    /\ DOMAIN out[i].function
                            = {"name", "description", "parameters"}
                    /\ out[i].function.description
                            = LatestDescription(out[i].function.name)
                    /\ out[i].function.parameters
                            = LatestSchema(out[i].function.name)
    /\ last_call.op = "get_tools_by_category" =>
        LET out == last_call.out
        IN  /\ \A i, j \in 1..Len(out) : out[i].key = out[j].key => i = j
            /\ \A i \in 1..Len(out) :
                    /\ out[i].value # <<>>
                    /\ InRegistrationOrder(
                            [k \in 1..Len(out[i].value) |->
                                out[i].value[k].name],
                            {n \in Registered :
                                LatestCategory(n) = out[i].key})
                    /\ \A k \in 1..Len(out[i].value) :
                            out[i].value[k]
                                = DictGet(tool_info, out[i].value[k].name)
            /\ \A n \in Registered :
                    \E i \in 1..Len(out) : out[i].key = LatestCategory(n)
C16_Witness ==
    /\ last_call.op = "get_tools_by_category"
    /\ last_reg["calc"].times = 2
    /\ last_reg["calc"].first = 1
    /\ last_reg["calc"].opts = [description |-> <<"A test tool">>,
                                category |-> "test"]
    /\ last_reg["save_note"].times = 1
    /\ last_reg["save_note"].first = 2
    /\ DictKeys(last_call.out) = <<"test", "storage">>

----------------------------------------------------------------------------
(* Properties of the shared registry *)

Keys(d) == {d[i].key : i \in 1..Len(d)}
\* The last call executed a tool that was registered on the shared
\* registry, with keywords its function returns for.
ExecutedDecorated ==
    /\ last_call.op = "execute_tool"
    /\ last_reg[last_call.name].times > 0
    /\ Invoke(last_reg[last_call.name].function, last_call.kwargs).kind
            = "return"

IsAccess(call) ==
    \/ call.op \in {"build_system_prompt", "get_tools_schema"}
    \/ call.op = "execute_tool" /\ call.on = "shared"

\* C18: single shared registry.  get_registry() creates the registry on the
\* first access and returns that instance on every later one: once created
\* the instance is never replaced, no registered name ever disappears from
\* it, a registration through it or through @tool puts the name in it, and
\* every accessor (prompt builder, schema export, dispatch) works on that
\* instance and sees every name registered before.
C18_SingleSharedRegistry ==
    [][/\ registry # None => registry' = registry
       /\ registry # None => Keys(tools) \subseteq Keys(tools')
       /\ registry # None => Keys(tool_info) \subseteq Keys(tool_info')
       /\ (registry = None /\ registry' # None)
            => /\ constructed' = constructed + 1
               /\ registry' = constructed'
       /\ IsAccess(last_call')
            => /\ registry' # None
               /\ last_call'.registry = registry'
               /\ registry # None =>
                    \A n \in Keys(tools) :
                        \E i \in 1..Len(last_call'.seen) :
                            last_call'.seen[i] = n
       /\ last_call'.op \in {"tool", "register_tool"}
            => /\ registry' # None
               /\ last_call'.name \in Keys(tools')
               /\ last_call'.name \in Keys(tool_info')
      ]_vars
C18_Witness ==
    /\ last_call.op = "get_tools_schema"
    /\ own_registry.id = 1
    /\ registry = 2
    /\ constructed = 2
    /\ last_call.registry = 2
    /\ last_call.seen = <<"decorated_tool", "calc">>

\* The title-cased name of a category.
TitleCased(category) ==
    IF category = "test" THEN "Test"
    ELSE IF category = "utility" THEN "Utility"
    ELSE IF category = "storage" THEN "Storage"
    ELSE IF category = "search" THEN "Search"
    ELSE IF category = "communication" THEN "Communication"
    ELSE "?"
\* The titles in alphabetical order.
AlphabeticalTitles ==
    <<"Communication", "Search", "Storage", "Test", "Utility">>
TitleRank(title) ==
    CHOOSE i \in 1..Len(AlphabeticalTitles) : AlphabeticalTitles[i] = title
\* Where the category headers and the tool lines of a prompt start.
HeaderAt(out) ==
    {i \in 1..(Len(out) - 2) : out[i] = "**" /\ out[i + 2] = " Tools:**"}
LineAt(out) == {i \in 1..(Len(out) - 1) : out[i] = "  - "}

\* C19: build_system_prompt never raises.  When enumerating the tools
\* fails it returns the fixed fallback prompt; otherwise the prompt has one
\* header per category, title-cased and in alphabetical order, and one line
\* per registered tool, exactly once, under the header of its category.
C19_PromptBuilder ==
    last_call.op = "build_system_prompt" =>
        LET out == last_call.out
        IN  /\ ~last_call.raised
            /\ last_call.fails =>
                    out = <<"You are a helpful AI assistant with access to tools. Use tools when needed and provide clear responses.">>
            /\ ~last_call.fails =>
                /\ \A n \in Keys(tool_info) :
                        Cardinality({i \in LineAt(out) : out[i + 1] = n}) = 1
                /\ \A i \in LineAt(out) :
                    /\ out[i + 1] \in Keys(tool_info)
                    /\ \E h \in HeaderAt(out) :
                        /\ h < i
                        /\ \A k \in HeaderAt(out) : k < i => k <= h
                        /\ out[h + 1] =
                            TitleCased(DictGet(tool_info, out[i + 1]).category)
                /\ \A h, k \in HeaderAt(out) :
                        h < k => TitleRank(out[h + 1]) < TitleRank(out[k + 1])
                /\ \A h \in HeaderAt(out) :
                        out[h + 1] \in {AlphabeticalTitles[i] :
                                            i \in 1..Len(AlphabeticalTitles)}
C19_Witness ==
    /\ last_call.op = "build_system_prompt"
    /\ ~last_call.fails
    /\ DictKeys(tool_info) = <<"decorated_tool", "save_note", "send_email">>
    /\ DictGet(tool_info, "decorated_tool").category = "test"
    /\ Cardinality(HeaderAt(last_call.out)) = 3

\* The files of a directory the load does not skip.
Live(dir) == SelectSeq(dir.files, LAMBDA file : file.name[1] # "__")
FileNames(files) == [i \in 1..Len(files) |-> files[i].name]

\* C20: tool loading isolates failures.  A load attempts every file whose
\* name does not start with "__", in directory order; a file that raises is
\* logged and the files after it are still loaded; every tool of a file
\* that loaded is registered, no tool of a skipped "__" file is, nothing
\* registered before is lost, no exception leaves the load, and a
\* directory that does not exist changes nothing.
C20_LoadIsolatesFailures ==
    last_call.op = "load_plugins" =>
        LET dir == last_call.dir
            before == last_call.before
            failing == SelectSeq(Live(dir),
                                 LAMBDA file : file.raises.type # "none")
            loading == SelectSeq(Live(dir),
                                 LAMBDA file : file.raises.type = "none")
        IN  /\ ~last_call.raised
            /\ Keys(before.tools) \subseteq Keys(tools)
            /\ ~dir.exists =>
                    /\ last_call.attempted = <<>>
                    /\ last_call.failed = <<>>
                    /\ tools = before.tools
                    /\ tool_info = before.tool_info
                    /\ loaded_plugins = before.loaded_plugins
            /\ dir.exists =>
                    /\ last_call.attempted = FileNames(Live(dir))
                    /\ last_call.failed = FileNames(failing)
                    /\ \A i \in 1..Len(loading) :
                        \A k \in 1..Len(loading[i].registers) :
                            LET n == loading[i].registers[k]
                            IN  /\ n \in Keys(tools)
                                /\ n \in Keys(tool_info)
                                /\ DictGet(tools, n).name = n
                    /\ \A i \in 1..Len(dir.files) :
                        dir.files[i].name[1] = "__" =>
                            \A k \in 1..Len(dir.files[i].registers) :
                                dir.files[i].registers[k] \in Keys(tools)
                                    => dir.files[i].registers[k]
                                            \in Keys(before.tools)
                    /\ last_call.tracks =>
                            loaded_plugins = before.loaded_plugins
                                                \o FileNames(loading)
C20_Witness ==
    /\ last_call.op = "load_plugins"
    /\ Len(last_call.dir.files) = 4
    /\ last_call.attempted
            = <<<<"notes", ".py">>, <<"syntax", ".py">>, <<"mail", ".py">>>>
    /\ last_call.failed = <<<<"syntax", ".py">>>>
    /\ Keys(tools) = {"calc", "save_note", "send_email"}

----------------------------------------------------------------------------
(* OllamaClient.chat: one request, with everything the transport can do     *)

ModelName == "llama3.1:8b"                  \* Config.model

\* The classes of the transport's exceptions with their base classes:
\* requests.exceptions.ConnectTimeout derives from both ConnectionError and
\* Timeout, ReadTimeout from Timeout only, and response.json() raises a
\* ValueError on a body that is not JSON.
BaseClasses(cls) ==
    CASE cls = "ConnectionError" -> {"ConnectionError", "RequestException"}
      [] cls = "ConnectTimeout" ->
            {"ConnectTimeout", "ConnectionError", "Timeout",
             "RequestException"}
      [] cls = "ReadTimeout" -> {"ReadTimeout", "Timeout", "RequestException"}
      [] cls = "HTTPError" -> {"HTTPError", "RequestException"}
      [] OTHER -> {cls}
IsInstance(e, cls) == cls \in BaseClasses(e.cls)

TransportError(cls, text) == [cls |-> cls, text |-> text]
\* An HTTPError as response.raise_for_status() builds it, with the response.
HTTPError(status_code, text) ==
    [cls |-> "HTTPError",
     text |-> <<ToString(status_code), " Error">>,
     response |-> [status_code |-> status_code, text |-> text]]
JsonNull == [json_null |-> TRUE]
IsJsonObject(v) == "json_null" \notin DOMAIN v

\* What one POST can do: session.post raises, raise_for_status raises,
\* response.json() raises, or the body is decoded to data.
PostRaises(e) == [step |-> "post", exc |-> e]
StatusRaises(e) == [step |-> "raise_for_status", exc |-> e]
JsonRaises(e) == [step |-> "json", exc |-> e]
Payload(data) == [step |-> "data", data |-> data]

\* The payload of the request: tools is added only when it is truthy.
ChatPayload(messages, tools_arg) ==
    [model |-> ModelName, messages |-> messages, stream |-> FALSE]
        @@ (IF tools_arg # <<>> THEN [tools |-> tools_arg] ELSE <<>>)

\* The body of the try block of chat once the payload was decoded: the
\* validation of the structure and the LLMResponse built from it.  A
\* ChatMessage field that is None is left out of the record.
ParseResponse(data) ==
    IF "message" \notin DOMAIN data
        THEN [kind |-> "raise",
              exc |-> [cls |-> "LLMResponseError",
                       text |-> <<"Invalid response: missing 'message' field">>]]
    ELSE IF ~IsJsonObject(data.message)
        THEN [kind |-> "raise",
              exc |-> [cls |-> "TypeError",
                       text |-> <<"argument of type 'NoneType' is not iterable">>]]
    ELSE IF "content" \notin DOMAIN data.message
        THEN [kind |-> "raise",
              exc |-> [cls |-> "LLMResponseError",
                       text |-> <<"Invalid response: missing 'content' in message">>]]
    ELSE Returns(
            [message |->
                [role |-> IF "role" \in DOMAIN data.message
                          THEN data.message.role ELSE "assistant",
                 content |-> data.message.content]
                @@ [k \in DOMAIN data.message \cap {"tool_calls", "tool_name"}
                        |-> data.message[k]],
             model |-> ModelName]
            @@ [k \in DOMAIN data \cap {"total_tokens"} |-> data[k]])

\* The try block of chat: the first step that raises ends it.
TryChat(transport) ==
    IF transport.step = "data" THEN ParseResponse(transport.data)
    ELSE [kind |-> "raise", exc |-> transport.exc]

\* The except clauses of chat, tried in the order they are written.  The
\* HTTPError clause reads e.response.status_code: an HTTPError that carries
\* no response makes the clause itself raise AttributeError.
ChatExcept(e, t) ==
    IF IsInstance(e, "ConnectionError")
        THEN [kind |-> "raise", exc |-> LLMConnectionError(ChatUrl, e.text)]
    ELSE IF IsInstance(e, "Timeout")
        THEN [kind |-> "raise", exc |-> LLMTimeoutError(t)]
    ELSE IF IsInstance(e, "HTTPError")
        THEN IF "response" \notin DOMAIN e
             THEN Raises("AttributeError",
                    <<"'NoneType' object has no attribute 'status_code'">>)
             ELSE [kind |-> "raise",
                   exc |-> LLMResponseError(
                        <<"HTTP ", ToString(e.response.status_code)>>
                        \o (IF e.response.text # <<>>
                            THEN <<": ">> \o e.response.text ELSE <<>>))]
    ELSE [kind |-> "raise",
          exc |-> LLMResponseError(<<"Unexpected error: ">> \o e.text)]

\* OllamaClient.chat(messages, tools) with Config.timeout = t
chat(transport, t) ==
    LET out == TryChat(transport)
    IN  IF out.kind = "return" THEN out ELSE ChatExcept(out.exc, t)

\* The requests a caller makes and what the transport does with them.
ChatMessages ==
    {<<[role |-> "user", content |-> <<c>>]>> : c \in UserInputs}
    \cup {<<[role |-> "system", content |-> FallbackPrompt],
            [role |-> "user", content |-> <<"hello">>]>>}
ChatTools == {<<>>, get_tools_schema(StartToolInfo)}
Transports ==
    {PostRaises(TransportError("ConnectionError", <<"Connection failed">>)),
     PostRaises(TransportError("ConnectTimeout", <<"connect timed out">>)),
     PostRaises(TransportError("ReadTimeout", <<"Request timed out">>)),
     StatusRaises(HTTPError(500, <<"Internal Server Error">>)),
     StatusRaises(HTTPError(404, <<>>)),
     StatusRaises(TransportError("HTTPError", <<"500 Server Error">>)),
     JsonRaises(TransportError("ValueError", <<"Expecting value">>)),
     Payload([invalid |-> "response"]),
     Payload([message |-> JsonNull]),
     Payload([message |-> [role |-> "assistant"]]),
     Payload([message |-> [content |-> <<"hi">>]]),
     Payload([message |-> [role |-> "assistant", content |-> <<"hi">>],
              total_tokens |-> 7]),
     Payload([message |-> [role |-> "assistant", content |-> <<"">>,
                           tool_calls |-> <<Call("calc", [x |-> 1])>>]])}

\* One chat call on a client.
client_chat(messages, tools_arg, transport) ==
    /\ last_call' = [op |-> "chat",
                     payload |-> ChatPayload(messages, tools_arg),
                     transport |-> transport,
                     out |-> chat(transport, timeout)]
    /\ UNCHANGED <<config_vars, module_vars, history, clock, registry_vars,
                   turn_vars, turn_logs, installed, last_reg, reg_count>>

InitClient ==
    /\ max_history \in {10}
    /\ timeout \in Timeouts
    /\ history = <<>>
    /\ clock = 0
    /\ tools = StartTools
    /\ tool_info = StartToolInfo
    /\ pc = "Idle"
    /\ context_messages = <<>>
    /\ tool_calls = <<>>
    /\ idx = 0
    /\ results = <<>>
    /\ tool_name = Unbound
    /\ depth = 0
    /\ recursion_limit = RecursionLimit
    /\ llm_log = <<>>
    /\ llm_responses = <<>>
    /\ turn_input = ""
    /\ exec_log = <<>>
    /\ appended = <<>>
    /\ returned = NotReturned
    /\ installed = <<>>
    /\ last_reg = NeverRegistered
    /\ reg_count = 0
    /\ last_call = NoCall
    /\ registry = 1
    /\ constructed = 1
    /\ own_registry = NoRegistry
    /\ loaded_plugins = <<>>

NextClient ==
    \E messages \in ChatMessages : \E tools_arg \in ChatTools :
        \E transport \in Transports :
            client_chat(messages, tools_arg, transport)

SpecClient == InitClient /\ [][NextClient]_vars

ChatFailed == last_call.op = "chat" /\ last_call.out.kind = "raise"
ConnectionFailure ==
    /\ last_call.transport.step = "post"
    /\ last_call.transport.exc.cls \in {"ConnectionError", "ConnectTimeout"}
TransportTimeout ==
    /\ last_call.transport.step = "post"
    /\ last_call.transport.exc.cls \in {"ConnectTimeout", "ReadTimeout"}
HttpStatusFailure == last_call.transport.step = "raise_for_status"
MalformedPayload ==
    /\ last_call.transport.step = "data"
    /\ \/ "message" \notin DOMAIN last_call.transport.data
       \/ "content" \notin DOMAIN last_call.transport.data.message

\* C21: LLM client failures are typed.  chat either returns a response or
\* fails with an LLMError subtype and nothing else: a connection failure
\* gives LLMConnectionError, a transport timeout gives LLMTimeoutError
\* carrying the configured timeout, a non-2xx HTTP status gives
\* LLMResponseError, and a payload without a message field or a message
\* without content gives LLMResponseError.
C21_TypedFailures ==
    last_call.op = "chat" =>
        /\ ChatFailed =>
                last_call.out.exc.type
                    \in {"LLMConnectionError", "LLMTimeoutError",
                         "LLMResponseError"}
        /\ (ConnectionFailure /\ ~TransportTimeout) =>
                /\ ChatFailed
                /\ last_call.out.exc.type = "LLMConnectionError"
        /\ TransportTimeout =>
                /\ ChatFailed
                /\ last_call.out.exc = LLMTimeoutError(timeout)
        /\ HttpStatusFailure =>
                /\ ChatFailed
                /\ last_call.out.exc.type = "LLMResponseError"
        /\ MalformedPayload =>
                /\ ChatFailed
                /\ last_call.out.exc.type = "LLMResponseError"

----------------------------------------------------------------------------
(* Properties of the order of events within a turn *)

TurnEdges ==
    {<<"Idle", "AwaitingLLM">>,
     <<"AwaitingLLM", "Idle">>,
     <<"AwaitingLLM", "DispatchingTools">>,
     <<"DispatchingTools", "AwaitingLLM">>,
     <<"DispatchingTools", "Idle">>}
\* A step in which a tool call is executed, and one in which the LLM is
\* called.
ExecutesTool == Len(exec_log') > Len(exec_log)
CallsLLM == llm_log' # llm_log
\* The last k dispatch attempts are those of positions 1..k, in that order.
AttemptedInOrder(log, k) ==
    /\ Len(log) >= k
    /\ \A j \in 1..k : log[Len(log) - k + j].index = j

\* C22: turn ordering.  A turn moves Idle -> AwaitingLLM, from there to Idle
\* on a response without tool calls (or an error) and to DispatchingTools on
\* a response with tool calls, and from DispatchingTools back to AwaitingLLM
\* (or to Idle on an error that ends the turn).  A tool is executed only
\* while dispatching, that is after an LLM response that carries tool calls
\* and before the next LLM call; the calls of the batch are executed one per
\* step in the order listed, each with its result recorded before the next
\* starts; and the next LLM call is made only when every call of the batch
\* has been executed.
C22_TurnOrdering ==
    [][/\ pc' # pc => <<pc, pc'>> \in TurnEdges
       /\ (pc = "AwaitingLLM" /\ pc' = "DispatchingTools")
            => /\ Last(llm_responses').kind = "message"
               /\ Last(llm_responses').tool_calls # <<>>
               /\ tool_calls' = Last(llm_responses').tool_calls
       /\ (pc = "AwaitingLLM" /\ pc' = "Idle")
            => \/ Last(llm_responses').kind = "raise"
               \/ Last(llm_responses').tool_calls = <<>>
       /\ (pc = "DispatchingTools" /\ pc' = "Idle")
            => "error" \in DOMAIN returned'
       /\ ExecutesTool =>
            /\ pc = "DispatchingTools"
            /\ Len(llm_responses) = Len(llm_log)
            /\ Last(llm_responses).kind = "message"
            /\ Last(llm_responses).tool_calls = tool_calls
            /\ tool_calls # <<>>
            /\ exec_log' = Append(exec_log, Last(exec_log'))
            /\ idx \in 1..Len(tool_calls)
            /\ Last(exec_log').index = idx
            /\ Len(results) = idx - 1
            /\ AttemptedInOrder(exec_log, idx - 1)
            /\ llm_log' = llm_log
            /\ pc' = "DispatchingTools"
                => /\ Len(results') = idx
                   /\ idx' = idx + 1
       /\ CallsLLM =>
            \/ /\ pc = "Idle"
               /\ Len(llm_log') = 1
               /\ exec_log' = <<>>
            \/ /\ pc = "DispatchingTools"
               /\ pc' = "AwaitingLLM"
               /\ llm_log' = Append(llm_log, Last(llm_log'))
               /\ Len(results) = Len(tool_calls)
               /\ AttemptedInOrder(exec_log, Len(tool_calls))
               /\ exec_log' = exec_log
       /\ pc = "AwaitingLLM" => ~ExecutesTool
      ]_vars
C22_Witness ==
    /\ pc = "AwaitingLLM"
    /\ Len(llm_log) = 2
    /\ Len(llm_responses) = 1
    /\ Len(Last(llm_responses).tool_calls) = 2
    /\ Len(exec_log) = 2
    /\ exec_log[1].index = 1
    /\ exec_log[2].index = 2

----------------------------------------------------------------------------
(* Properties of the length of a chain *)

StartsRound(attempt) == attempt.index = 1
\* The dispatch rounds the turn has begun and the one it is about to begin.
RoundsBegun(log) == Len(SelectSeq(log, StartsRound))
RoundPending(at, i) == IF at = "DispatchingTools" /\ i = 1 THEN 1 ELSE 0

\* C23: chaining is uncapped and a turn ends exactly on the first non-tool
\* response.  A turn performs one dispatch round for each LLM response that
\* carries tool calls, for any number of rounds; it returns as soon as a
\* response without tool calls or an LLM error arrives; and, every LLM call
\* and tool call returning, it ends after an LLM call only when that call
\* produced a response without tool calls or an error.
C23_UncappedChaining ==
    [][/\ RoundsBegun(exec_log') + RoundPending(pc', idx')
            = Len(SelectSeq(llm_responses', AsksForTools))
       /\ (pc = "AwaitingLLM" /\ Len(llm_responses') > Len(llm_responses)
                /\ ~AsksForTools(Last(llm_responses')))
            => /\ pc' = "Idle"
               /\ returned'.done
       /\ (pc = "AwaitingLLM" /\ pc' = "Idle")
            => ~AsksForTools(Last(llm_responses'))
      ]_vars

----------------------------------------------------------------------------
(* Properties of the context of a continuation call *)

\* The step in which _handle_tool_calls calls the LLM again.
ContinuationStep ==
    /\ pc = "DispatchingTools"
    /\ Len(llm_log') = Len(llm_log) + 1
ToolResultKeys == {"role", "content", "tool_name"}

\* C24: continuation context.  On every continuation call of a turn the
\* message list passed to the LLM is the list passed on the previous call of
\* the turn followed by exactly that round's tool results {role: tool,
\* content, tool_name} in batch order, with nothing else added (not the
\* assistant message carrying the tool_calls) and nothing removed; and the
\* same results, with the same content and tool_name and in the same order,
\* are appended to the conversation directly after that assistant entry.
C24_ContinuationContext ==
    [][ContinuationStep =>
        LET prev == Last(llm_log).messages
            new == Last(llm_log').messages
            n == Len(tool_calls)
            m == Len(appended)
        IN  /\ Len(new) = Len(prev) + n
            /\ SubSeq(new, 1, Len(prev)) = prev
            /\ \A k \in 1..n :
                    /\ DOMAIN new[Len(prev) + k] = ToolResultKeys
                    /\ ResultFits(tool_calls[k], new[Len(prev) + k])
            /\ \A k \in 1..Len(new) : ~CarriesToolCalls(new[k])
                    \/ (k <= Len(llm_log[1].messages)
                            /\ new[k] = llm_log[1].messages[k])
            /\ CarriesToolCalls(appended[m])
            /\ appended[m].tool_calls = tool_calls
            /\ Len(appended') = m + n
            /\ SubSeq(appended', 1, m) = appended
            /\ \A k \in 1..n :
                    /\ appended'[m + k].role = "tool"
                    /\ appended'[m + k].content = new[Len(prev) + k].content
                    /\ appended'[m + k].tool_name
                            = new[Len(prev) + k].tool_name
                    /\ appended'[m + k].timestamp = clock + k
            /\ Last(history') = Last(appended')
       ]_vars
C24_Witness ==
    /\ pc = "AwaitingLLM"
    /\ Len(llm_log) = 3
    /\ Len(llm_log[3].messages) = Len(llm_log[1].messages) + 2
    /\ llm_log[3].messages[Len(llm_log[1].messages) + 1].content = <<"42">>
    /\ Len(SelectSeq(appended, IsToolMsg)) = 2

----------------------------------------------------------------------------
(* Properties of the stored history *)

\* C25: the history keeps insertion order without duplicates.  After any
\* sequence of add_message calls with any roles, optionally preceded by
\* load_history, the stored history is a subsequence of the messages
\* installed and appended (each of which has its own timestamp, in insertion
\* order): the retained messages are in their insertion order and none
\* occurs more than once.
C25_InsertionOrderNoDuplicates ==
    /\ \A i, j \in 1..Len(history) :
            i < j => history[i].timestamp < history[j].timestamp
    /\ \A i \in 1..Len(history) :
            \/ history[i] \in Range(installed)
            \/ history[i].timestamp \in 1..clock

\* C26: the history length is soft-bounded.  For every max_history >= 1,
\* after every add_message call the history has at most 2 * max_history
\* non-system entries; right after an append that took the length above
\* 2 * max_history it consists of the system entries followed by the last
\* max_history entries, and after any other append it is the old history
\* plus the new message; load_history installs the given history as it is,
\* however long, so that the bound is re-established only by the next append.
C26_SoftBound ==
    [][max_history >= 1 =>
        /\ clock' = clock + 1 =>
            LET h1 == Append(history, appended'[1])
            IN  /\ Len(SelectSeq(history', IsNonSystem)) <= 2 * max_history
                /\ Len(h1) > 2 * max_history
                    => history' = SelectSeq(h1, IsSystem)
                                    \o LastEntries(h1, max_history)
                /\ Len(h1) <= 2 * max_history => history' = h1
        /\ installed' # installed =>
            /\ history' = installed'
            /\ clock' = clock
       ]_vars
C26_Witness ==
    /\ max_history = 1
    /\ Len(SelectSeq(installed, IsNonSystem)) = 4
    /\ clock = 1
    /\ Len(history) = 1
    /\ history[1].timestamp = 1

----------------------------------------------------------------------------
(* Properties of the priority of the category rules *)

RulePriority ==
    <<[category |-> "generation", words |-> GenerationWords],
      [category |-> "storage", words |-> StorageWords],
      [category |-> "search", words |-> SearchWords],
      [category |-> "retrieval", words |-> RetrievalWords],
      [category |-> "communication", words |-> CommunicationWords],
      [category |-> "combined", words |-> CombinedWords],
      [category |-> "calculation", words |-> CalculationWords],
      [category |-> "security", words |-> SecurityWords]>>
Taxonomy == {RulePriority[i].category : i \in 1..Len(RulePriority)}
                \cup {"utility"}
Matching(n) ==
    {i \in 1..Len(RulePriority) : HasWord(n, RulePriority[i].words)}
Earliest(n) == CHOOSE i \in Matching(n) : \A j \in Matching(n) : i <= j

\* C27: category inference uses a fixed priority.  Without a category
\* argument the category is that of the first rule, in the order generation,
\* storage, search, retrieval, communication, combined, calculation,
\* security, one of whose keywords is a substring of the lower-cased name,
\* and utility when no rule matches: a name matching several rules gets the
\* earliest one, and the category is always one of the nine of the taxonomy.
C27_CategoryPriority ==
    \A n \in Inferred :
        /\ Matching(n) # {}
            => CategoryOf(n) = RulePriority[Earliest(n)].category
        /\ Matching(n) = {} => CategoryOf(n) = "utility"
        /\ CategoryOf(n) \in Taxonomy
        /\ Cardinality(Taxonomy) = 9
C27_Witness ==
    /\ "generate_and_save" \in Inferred
    /\ Matching("generate_and_save") = {1, 2, 6}
    /\ CategoryOf("generate_and_save") = "generation"
    /\ last_call.op = "register_tool"

----------------------------------------------------------------------------
(* Properties of the attribution of tool results *)

\* The function.name of a call as the request has it, "unknown" when the
\* call has none.
HasName(tool_call) ==
    /\ "function" \in DOMAIN tool_call
    /\ "name" \in DOMAIN tool_call.function
    /\ tool_call.function.name # NoName
RequestedName(tool_call) ==
    IF HasName(tool_call) THEN tool_call.function.name ELSE "unknown"

\* C28: result attribution.  Every tool-role message of a dispatch round
\* carries as tool_name the function.name of the very call that produced it,
\* or "unknown" when that call has no name; a call without a name yields a
\* failure message and never causes a tool to run; no message is attributed
\* to the name of another call of the batch.
C28_ResultAttribution ==
    [][ExecutesTool =>
        LET call == tool_calls[idx]
        IN  /\ ~HasName(call) =>
                /\ ~Last(exec_log').invoked
                /\ pc' = "DispatchingTools"
                /\ Last(results').content[1] = "Tool execution failed: "
            /\ pc' = "DispatchingTools" =>
                /\ Len(results') = idx
                /\ Last(results').role = "tool"
                /\ Last(results').tool_name = RequestedName(call)
       ]_vars

----------------------------------------------------------------------------
(* Properties of what a turn appends to the conversation *)

IsFinalEntry(msg) ==
    \/ msg.role = "assistant" /\ ~CarriesToolCalls(msg)
    \/ msg.role = "error"
\* The batches of the responses that carry tool calls, in order.
BatchesOf(responses) ==
    LET asking == SelectSeq(responses, AsksForTools)
    IN  [i \in 1..Len(asking) |-> asking[i].tool_calls]
\* entries is, for each batch, an assistant entry carrying it and one tool
\* entry per call, and then exactly one final entry.
RECURSIVE RoundsThenFinal(_, _)
RoundsThenFinal(entries, batches) ==
    IF batches = <<>>
    THEN Len(entries) = 1 /\ IsFinalEntry(entries[1])
    ELSE LET n == Len(Head(batches))
         IN  /\ Len(entries) >= n + 2
             /\ entries[1].role = "assistant"
             /\ CarriesToolCalls(entries[1])
             /\ entries[1].tool_calls = Head(batches)
             /\ \A k \in 1..n : entries[1 + k].role = "tool"
             /\ RoundsThenFinal(SubSeq(entries, n + 2, Len(entries)),
                                Tail(batches))

\* C29: the shape of a turn's appends.  What one process_message call
\* appends is, in order, one user entry with the input, then for each
\* dispatch round one assistant entry carrying the tool_calls followed by
\* one tool entry per requested call, then exactly one final entry, an
\* assistant entry without tool_calls or an error entry; the string returned
\* is the content of the final entry, which for max_history >= 1 is the last
\* entry of the history when the call returns.
C29_TurnAppends ==
    (pc = "Idle" /\ returned.done) =>
        /\ ~returned.raised
        /\ Len(appended) >= 2
        /\ appended[1].role = "user"
        /\ appended[1].content = <<turn_input>>
        /\ RoundsThenFinal(Tail(appended), BatchesOf(llm_responses))
        /\ returned.value = Last(appended).content
        /\ max_history >= 1 => Last(history) = Last(appended)

----------------------------------------------------------------------------
(* Properties of the message lists the LLM is sent *)

\* The message at position k of a list is a tool result whose request, an
\* assistant message carrying a tool call of that name, comes earlier in
\* the list.
Requested(messages, k) ==
    \E j \in 1..(k - 1) :
        /\ messages[j].role = "assistant"
        /\ CarriesToolCalls(messages[j])
        /\ \E c \in 1..Len(messages[j].tool_calls) :
                RequestedName(messages[j].tool_calls[c])
                    = messages[k].tool_name

\* C30: tool results are never orphaned in what the LLM sees.  In every
\* message list sent to the LLM, on a first call and on a continuation call
\* alike, each tool-role message is preceded in the same list by the
\* assistant message carrying the tool_calls that requested it.
C30_NoOrphanResults ==
    \A c \in 1..Len(llm_log) :
        \A k \in 1..Len(llm_log[c].messages) :
            IsToolMsg(llm_log[c].messages[k])
                => Requested(llm_log[c].messages, k)

====
